---------------------------- MODULE Spec2Model ----------------------------
(***************************************************************************)
(* Model of investment-good-sleep-line: the statistical distribution core  *)
(* (src/utils/normalDistribution.ts and its normal-approximation sibling   *)
(* src/unnamed/part_002), the settings provider (src/unnamed/part_000) and *)
(* the pages that call them (src/unnamed/part_001).                        *)
(*                                                                         *)
(* Numbers.  The source computes in IEEE doubles.  The model computes in   *)
(* fixed point on 32-bit integers, each product and quotient truncated     *)
(* toward zero on the magnitudes of the operands, so that, as in IEEE      *)
(* arithmetic, an operation on negated operands gives the negated result.  *)
(* Scales:                                                                 *)
(*   S9  probabilities, densities, erf values and the erf coefficients     *)
(*       (the nine decimals of the source are exact at this scale);        *)
(*   S8  the argument of erf, arguments of exp, log-scale quantities;      *)
(*   S6  points of the standard normal axis (z-scores) and the inverse     *)
(*       CDF (its coefficients are rounded to six decimals).               *)
(* The non-finite doubles are the values NaN, PosInf and NegInf of the     *)
(* tagged representation below; a finite result is Num(v).                 *)
(***************************************************************************)
EXTENDS Integers, Sequences, FiniteSets, TLC

(***************************************************************************)
(* call, ret: one call of a function of the core: its name and arguments   *)
(* (fn = "none" before the call is made) and the sequence of values it     *)
(* returned.  stats: the statistics a page holds from its last call of     *)
(* calculateInvestmentDistribution (NoStats before the first).             *)
(* settings, stored: the state of SettingsProvider and the localStorage    *)
(* entry it writes (<<>> when absent).  formData: the form of the Settings *)
(* page.  tempProbabilityThreshold, years: the state of the Distribution   *)
(* page (<<>> for null).  page: the page that is mounted.                  *)
(* tempInvestmentRatio: the ratio slider of the Distribution page (<<>>    *)
(* for null).  worstCaseAssets, worstCaseLoss: the worst case the          *)
(* Distribution page computed in its last render, in currency units (<<>>  *)
(* before the render and when the render threw before reaching them).      *)
(* url: the query the provider last wrote to the URL with                  *)
(* history.replaceState, as the record of the five values it wrote (<<>>   *)
(* for a URL without query).  stored holds the text JSON.stringify wrote.  *)
(* shouldUpdateUrl: the flag of the provider that asks the URL-sync effect *)
(* to write the URL.  clearPending: the number of timers resetSettings has *)
(* scheduled and that have not fired.  isResetModalOpen: the state of the  *)
(* Settings page.  pdfPc: the position of each invocation of generatePDF.  *)
(* attached: the temporary elements appended to document.body, each as     *)
(* <<invocation, element>>.                                                *)
(***************************************************************************)
VARIABLES call, ret, stats, settings, stored, formData,
          tempProbabilityThreshold, years, page,
          tempInvestmentRatio, worstCaseAssets, worstCaseLoss, url,
          shouldUpdateUrl, clearPending, isResetModalOpen, pdfPc, attached

vars ==
  <<call, ret, stats, settings, stored, formData, tempProbabilityThreshold,
    years, page, tempInvestmentRatio, worstCaseAssets, worstCaseLoss, url,
    shouldUpdateUrl, clearPending, isResetModalOpen, pdfPc, attached>>
providerVars == <<shouldUpdateUrl, clearPending>>
pdfVars == <<pdfPc, attached>>
uiVars ==
  <<settings, stored, formData, tempProbabilityThreshold, years, page,
    tempInvestmentRatio, worstCaseAssets, worstCaseLoss, url, providerVars,
    isResetModalOpen, pdfVars>>

S9 == 10^9
S8 == 10^8
S6 == 10^6

Abs(a) == IF a < 0 THEN -a ELSE a
Sgn(a) == IF a < 0 THEN -1 ELSE 1
Max(a, b) == IF a >= b THEN a ELSE b
Min(a, b) == IF a <= b THEN a ELSE b

(***************************************************************************)
(* Prod(a, b) = <<hi, lo>> with a*b = hi * 10^9 + lo and 0 <= lo < 10^9,   *)
(* for a, b >= 0: the exact product, from the base-1000 digits of the      *)
(* factors, so that no intermediate value leaves 32 bits.                  *)
(***************************************************************************)
Prod(a, b) ==
  LET a0 == a % 1000
      a1 == (a \div 1000) % 1000
      a2 == (a \div 1000000) % 1000
      a3 == a \div 1000000000
      b0 == b % 1000
      b1 == (b \div 1000) % 1000
      b2 == (b \div 1000000) % 1000
      b3 == b \div 1000000000
      c0 == a0 * b0
      c1 == a1 * b0 + a0 * b1
      c2 == a2 * b0 + a1 * b1 + a0 * b2
      c3 == a3 * b0 + a2 * b1 + a1 * b2 + a0 * b3
      c4 == a3 * b1 + a2 * b2 + a1 * b3
      c5 == a3 * b2 + a2 * b3
      c6 == a3 * b3
      k1 == c1 * 1000 + c0
      k2 == (c2 % 1000) * 1000000 + (k1 % 1000000000)
  IN <<c6 * 1000000000 + c5 * 1000000 + c4 * 1000 + c3
         + (c2 \div 1000) + (k1 \div 1000000000) + (k2 \div 1000000000),
       k2 % 1000000000>>

\* a*b / 10^9, a*b / 10^8 and a*b / 10^6, truncated toward zero.
Mul9(a, b) == Sgn(a) * Sgn(b) * Prod(Abs(a), Abs(b))[1]
Pair8(p) == p[1] * 10 + (p[2] \div 100000000)
Pair6(p) == p[1] * 1000 + (p[2] \div 1000000)
Mul8(a, b) == Sgn(a) * Sgn(b) * Pair8(Prod(Abs(a), Abs(b)))
Mul6(a, b) == Sgn(a) * Sgn(b) * Pair6(Prod(Abs(a), Abs(b)))

(***************************************************************************)
(* Division.  Frac9(r, c) = floor(r * 10^9 / c) for 0 <= r < c <= DivMax,  *)
(* by decimal long division.  DivS(a, k, c) is a * 10^k / c truncated      *)
(* toward zero, for any sign of a, c > 0 and 0 <= k <= 9: exact for        *)
(* c <= DivMax; a larger divisor keeps its leading digits (c \div 10, with *)
(* one decimal less in the scale factor).                                  *)
(***************************************************************************)
DivMax == 2147483647 \div 10

Frac9(r, c) ==
  LET r1 == (r * 10) % c
      r2 == (r1 * 10) % c
      r3 == (r2 * 10) % c
      r4 == (r3 * 10) % c
      r5 == (r4 * 10) % c
      r6 == (r5 * 10) % c
      r7 == (r6 * 10) % c
      r8 == (r7 * 10) % c
  IN ((r * 10) \div c) * 100000000 + ((r1 * 10) \div c) * 10000000
       + ((r2 * 10) \div c) * 1000000 + ((r3 * 10) \div c) * 100000
       + ((r4 * 10) \div c) * 10000 + ((r5 * 10) \div c) * 1000
       + ((r6 * 10) \div c) * 100 + ((r7 * 10) \div c) * 10 + ((r8 * 10) \div c)

DivU(a, k, c) == (a \div c) * 10^k + (Frac9(a % c, c) \div 10^(9 - k))

DivS(a, k, c) ==
  IF c > DivMax THEN Sgn(a) * DivU(Abs(a), k - 1, c \div 10)
  ELSE Sgn(a) * DivU(Abs(a), k, c)

(***************************************************************************)
(* Math.exp(-u) for u >= 0 given at scale S8, result at scale S9:          *)
(* exp(-u) = exp(-n) * exp(-d1/10) * exp(-d2/100) * exp(-g) with n the     *)
(* integer part of u, d1 and d2 its first two decimals and g < 0.01 the    *)
(* rest; the first three factors are tabulated, the last is its Taylor     *)
(* polynomial.  exp(-u) is below the resolution of S9 from u = 21.         *)
(***************************************************************************)
EXP_INT ==
  <<1000000000, 367879441, 135335283, 49787068, 18315639, 6737947, 
    2478752, 911882, 335463, 123410, 45400, 16702, 6144, 2260, 832, 
    306, 113, 41, 15, 6, 2>>

EXP_TENTH ==
  <<1000000000, 904837418, 818730753, 740818221, 670320046, 
    606530660, 548811636, 496585304, 449328964, 406569660>>

EXP_HUNDREDTH ==
  <<1000000000, 990049834, 980198673, 970445534, 960789439, 
    951229425, 941764534, 932393820, 923116346, 913931185>>

ExpTaylor(g, g2) ==
  S9 - g + (g2 \div 2) - (Mul9(g2, g) \div 6) + (Mul9(g2, g2) \div 24)
ExpSmall(g) == ExpTaylor(g, Mul9(g, g))

ExpNeg(u) ==
  IF u >= 21 * S8 THEN 0
  ELSE Mul9(Mul9(EXP_INT[(u \div S8) + 1], EXP_TENTH[((u \div 10000000) % 10) + 1]),
            Mul9(EXP_HUNDREDTH[((u \div 1000000) % 10) + 1],
                 ExpSmall((u % 1000000) * 10)))

(***************************************************************************)
(* Math.exp(v) for v >= 0 at scale S8: exp(v) = 2^k / exp(-f) with         *)
(* v = k ln 2 + f.  ExpAmount is the whole part of exp(v), for exp(v) <    *)
(* 2^31 (0 for v < 0, where exp(v) < 1); ExpPosS6 is exp(v) at scale S6,   *)
(* for exp(v) < 2048.                                                      *)
(***************************************************************************)
LN2 == 69314718
LN10 == 230258509

ExpFrac(v) == DivS(S9, 9, ExpNeg(v % LN2))
ExpAmount(v) == IF v < 0 THEN 0 ELSE Mul9(ExpFrac(v), 2^(v \div LN2))
ExpPosS6(v) == (ExpFrac(v) \div 1000) * 2^(v \div LN2)

(***************************************************************************)
(* Math.sqrt(v) for v >= 0 at scale S6, result at scale S6: six Newton     *)
(* steps from the power of two nearest the root.                           *)
(***************************************************************************)
SqrtStep(v, x) == (x + DivS(v, 6, x)) \div 2

(***************************************************************************)
(* The double values a function of the core can return.                    *)
(***************************************************************************)
Num(v) == [k |-> "num", v |-> v]
NaN == [k |-> "NaN", v |-> 0]
PosInf == [k |-> "Infinity", v |-> 0]
NegInf == [k |-> "-Infinity", v |-> 0]
Thrown == [k |-> "throw", v |-> 0]
IsNum(r) == r.k = "num"


(***************************************************************************)
(* Math.log.  LnInt(X) is ln X at scale S8 for an integer 1 <= X < 2^29:   *)
(* X = m * 2^k with 3/4 <= m < 3/2, ln m = 2 atanh(u) by its series in     *)
(* u = (X - 2^k)/(X + 2^k), |u| <= 1/5.                                    *)
(***************************************************************************)
Log2From1(x, k) == k + (IF x >= 2 THEN 1 ELSE 0)
Log2From2(x, k) ==
  IF x >= 4 THEN Log2From1(x \div 4, k + 2) ELSE Log2From1(x, k)
Log2From4(x, k) ==
  IF x >= 16 THEN Log2From2(x \div 16, k + 4) ELSE Log2From2(x, k)
Log2From8(x, k) ==
  IF x >= 256 THEN Log2From4(x \div 256, k + 8) ELSE Log2From4(x, k)
Log2Floor(X) ==
  IF X >= 65536 THEN Log2From8(X \div 65536, 16) ELSE Log2From8(X, 0)

AtanhSeries(w) ==
  S9 + Mul9(w, 333333333 + Mul9(w, 200000000 + Mul9(w, 142857143
         + Mul9(w, 111111111 + Mul9(w, 90909091 + Mul9(w, 76923077))))))

\* ln m = 2 atanh(u), at scale S9.
LnMantissa(u) == 2 * Mul9(u, AtanhSeries(Mul9(u, u)))
LnFrom(X, k) == k * LN2 + (LnMantissa(DivS(X - 2^k, 9, X + 2^k)) \div 10)
LnRound(X, k0) == LnFrom(X, IF 2 * X >= 3 * 2^k0 THEN k0 + 1 ELSE k0)
LnInt(X) == LnRound(X, Log2Floor(X))

SqrtFrom(v, x0) ==
  SqrtStep(v, SqrtStep(v, SqrtStep(v, SqrtStep(v, SqrtStep(v, SqrtStep(v, x0))))))
SqrtS6(v) ==
  IF v = 0 THEN 0 ELSE SqrtFrom(v, 2^(Log2Floor(v) \div 2) * 1000)

\* Math.log(v) at scale S8 for v > 0 given at scale S9 (v below 2^29 * 10).
LogS9(v) == LnInt(v \div 10) - 8 * LN10

(***************************************************************************)
(* src/utils/normalDistribution.ts lines 7-23: erf.  x at scale S8, the    *)
(* result at scale S9.  exp(-x*x) is below the resolution of S9 for        *)
(* |x| > 4.6, where x*x would leave the range of S8.                       *)
(***************************************************************************)
erf_a1 == 254829592
erf_a2 == -284496736
erf_a3 == 1421413741
erf_a4 == -1453152027
\* a5 with two digits exchanged.
erf_a5_typo == 1061405429 - 360000
erf_a5 == 1061405429
erf_p == 327591100

ExpNegSq(x) == IF Abs(x) > 46 * (S8 \div 10) THEN 0 ELSE ExpNeg(Mul8(x, x))

\* lines 11-20: t and y, from the magnitude x.
erfPoly(t, x) ==
  S9 - Mul9(Mul9(Mul9(Mul9(Mul9(Mul9(erf_a5, t) + erf_a4, t) + erf_a3, t)
                              + erf_a2, t) + erf_a1, t),
            ExpNegSq(x))
erfAbs(x) == erfPoly(DivS(S9, 8, S8 + Mul9(erf_p, x)), x)

\* erf with the sign dropped from the result.
erf_unsigned(x0) == erfAbs(Abs(x0))

erf(x0) == (IF x0 >= 0 THEN 1 ELSE -1) * erfAbs(Abs(x0))

(***************************************************************************)
(* lines 30-32: normalCDF, x at scale S6, result at scale S9.  x / sqrt(2) *)
(* is taken as x * (1/sqrt(2)); beyond |x| = ZCap the erf term is +-1 at   *)
(* the resolution of S9 and the argument is held there.                    *)
(***************************************************************************)
INV_SQRT2 == 707106781
ZCap == 20 * S6

\* normalCDF without the 1 + of 0.5 * (1 + erf(..)).
normalCDF_noOffset(x) ==
  erf(Sgn(x) * Mul9(Min(Abs(x), ZCap) * 100, INV_SQRT2)) \div 2

normalCDF(x) ==
  (S9 + erf(Sgn(x) * Mul9(Min(Abs(x), ZCap) * 100, INV_SQRT2))) \div 2

(***************************************************************************)
(* lines 39-41: normalPDF, x at scale S6, result at scale S9.              *)
(* exp(-0.5*x*x) is below the resolution of S9 for |x| > 6.5.              *)
(***************************************************************************)
INV_SQRT_2PI == 398942280

\* Math.exp(-0.5 * z * z), z at scale S6, result at scale S9.
expHalfSq(z) ==
  IF Abs(z) > 65 * (S6 \div 10) THEN 0
  ELSE ExpNeg(Mul8(Abs(z) * 50, Abs(z) * 100))

normalPDF(x) == Mul9(expHalfSq(x), INV_SQRT_2PI)

(***************************************************************************)
(* lines 73-118: normalInverseCDF (Beasley-Springer-Moro).  p at scale S6, *)
(* the result Thrown or Num(x) with x at scale S6.  The central branch     *)
(* works at scale 10^7 (a0..b3 rounded to seven decimals) with r = y*y at  *)
(* S9, the tail branch with r = log(-log(r)) at S8 and c0..c8 at S9.       *)
(***************************************************************************)
inv_a0 == 25066282
inv_a1 == -186150006
inv_a2 == 413911977
inv_a3 == -254410605
inv_b0 == -84735109
inv_b1 == 230833674
inv_b2 == -210622410
inv_b3 == 31308291
inv_c0 == 337475482
inv_c1 == 976169019
inv_c2 == 160797971
inv_c3 == 27643881
inv_c4 == 3840573
inv_c5 == 395190
inv_c6 == 32177
inv_c7 == 289
inv_c8 == 396
CentralHalfWidth == 42 * (S6 \div 100)

\* Math.log(v) at scale S8, for v > 0 given at scale S6.
LogS6(v) == LnInt(v) - 6 * LN10

\* Math.log(m) at scale S8, for m > 0 given at scale S8 (m < 2^29 * 10^-7).
LogS8(m) == LnInt(m \div 10) - 7 * LN10

invCentralNum(r) ==
  Mul9(Mul9(Mul9(inv_a3, r) + inv_a2, r) + inv_a1, r) + inv_a0
invCentralDen(r) ==
  Mul9(Mul9(Mul9(Mul9(inv_b3, r) + inv_b2, r) + inv_b1, r) + inv_b0, r)
    + 10000000
invCentralRatio(y, r) == Mul8(y, DivS(invCentralNum(r), 8, invCentralDen(r)))
invCentral(y) == invCentralRatio(y, Mul6(y * 1000, y))

invTailPoly(r) ==
  (inv_c0 \div 10)
    + Mul9(r, inv_c1 + Mul8(r, inv_c2 + Mul8(r, inv_c3 + Mul8(r, inv_c4
        + Mul8(r, inv_c5 + Mul8(r, inv_c6 + Mul8(r, inv_c7 + Mul8(r, inv_c8))))))))

\* x from -log(r) = m > 0, at scale S8.
invTailX(m) == IF m > 0 THEN invTailPoly(LogS8(m)) \div 100 ELSE 0
\* The tail branch with the sign of the result never flipped.
invTailSigned_noFlip(y, x) == x
invTailSigned(y, x) == IF y < 0 THEN -x ELSE x
invTail(p, y) == invTailSigned(y, invTailX(-LogS6(IF y > 0 THEN S6 - p ELSE p)))

\* lines 98-117: the two branches, for 0 < p < 1.
invBranchOf(p, y) ==
  IF Abs(y) < CentralHalfWidth THEN invCentral(y) ELSE invTail(p, y)
invBranch(p) == invBranchOf(p, p - (S6 \div 2))

\* normalInverseCDF clamping p into the open interval instead of throwing.
normalInverseCDF_clamped(p) == Num(invBranch(Max(1, Min(S6 - 1, p))))

normalInverseCDF(p) ==
  IF p <= 0 \/ p >= S6 THEN Thrown ELSE Num(invBranch(p))

(***************************************************************************)
(* Asset values.  A parameter of the distribution on the natural scale     *)
(* (mean, stdDev, a bound of the plotted range) is a whole number of       *)
(* currency units; a point of a curve is x = w + f/d with 0 <= f < d, d    *)
(* the number of steps of the curve, so that the points of a curve are     *)
(* exact; the bounds of the lognormal range, exp(logXMin) and              *)
(* exp(logXMax), are whole numbers of thousandths of a unit below          *)
(* MilliMax units and whole units above.  Log-scale parameters (logMean,   *)
(* logStdDev) are at scale S8.                                             *)
(* A density is DNum(v, e), the number v * 10^-e, or NaN or an infinity.   *)
(***************************************************************************)
XPoint(w, f, d) == [w |-> w, f |-> f, d |-> d]
XWhole(w) == XPoint(w, 0, 1)
XIsZero(x) == x.w = 0 /\ x.f = 0
XNonPositive(x) == x.w < 0 \/ XIsZero(x)
\* a < b, for two points of one curve (a.d = b.d).
XLess(a, b) == a.w < b.w \/ (a.w = b.w /\ a.f < b.f)
XMilli(x) == (x.f * 1000) \div x.d

DNum(v, e) == [k |-> "num", v |-> v, e |-> e]

(***************************************************************************)
(* The double operations of the general-form evaluators on values that can *)
(* be NaN or infinite.  A quotient by 0 is NaN for 0/0 and an infinity     *)
(* otherwise; a z-score beyond ZCap is held at ZCap (the density and the   *)
(* tail probability there are 0 at the resolution of S9).                  *)
(***************************************************************************)
\* v / s as a z-score at scale S6, v and s >= 0 at one common scale.
ZQuot(v, frac, s) ==
  IF s = 0
  THEN IF v = 0 /\ frac = 0 THEN NaN ELSE IF v >= 0 THEN PosInf ELSE NegInf
  ELSE IF Abs(v) \div s >= ZCap \div S6 THEN Num(Sgn(v) * ZCap)
  ELSE Num(DivS(v, 6, s) + frac)

expHalfSqDouble(z) ==
  IF z.k = "NaN" THEN NaN
  ELSE IF z.k = "num" THEN Num(expHalfSq(z.v))
  ELSE Num(0)

normalCDFDouble(z) ==
  IF z.k = "NaN" THEN NaN
  ELSE IF z.k = "num" THEN Num(normalCDF(z.v))
  ELSE IF z.k = "Infinity" THEN Num(S9)
  ELSE Num(0)

\* a / s for a density a = v * 10^-e >= 0 and s > 0 at scale S8, at the
\* finest of the scales e, e - 3, e - 6 that holds the quotient.
DensityOver(v, e, s) ==
  IF v \div 21 < s THEN DNum(DivS(v, 8, s), e)
  ELSE IF v \div 21000 < s THEN DNum(DivS(v, 5, s), e - 3)
  ELSE DNum(DivS(v, 2, s), e - 6)

(***************************************************************************)
(* lines 50-53 and 62-65: normalPDFGeneral and normalCDFGeneral.           *)
(***************************************************************************)
zScore(x, mean, stdDev) ==
  ZQuot(x.w - mean, IF stdDev = 0 THEN x.f ELSE DivS(XMilli(x), 3, stdDev), stdDev)

normalPDFOver(pdf, stdDev) ==
  IF pdf.k = "NaN" THEN NaN
  ELSE IF stdDev = 0 THEN (IF pdf.v = 0 THEN NaN ELSE PosInf)
  ELSE IF stdDev >= 1000
       THEN DNum(DivS(Mul9(pdf.v, INV_SQRT_2PI), 3, stdDev), 12)
       ELSE DNum(Mul9(pdf.v, INV_SQRT_2PI) \div stdDev, 9)

normalPDFGeneral(x, mean, stdDev) ==
  normalPDFOver(expHalfSqDouble(zScore(x, mean, stdDev)), stdDev)

normalCDFGeneral(x, mean, stdDev) == normalCDFDouble(zScore(x, mean, stdDev))

(***************************************************************************)
(* lines 165-182: lognormalPDF and lognormalCDF.  LogX is Math.log(x) at   *)
(* scale S8: NaN for x < 0 and -Infinity for x = 0.                        *)
(***************************************************************************)
LogX(x) ==
  IF x.w < 0 THEN NaN
  ELSE IF XIsZero(x) THEN NegInf
  ELSE IF x.w = 0 /\ XMilli(x) = 0 THEN Num(LnInt(x.f) - LnInt(x.d))
  ELSE IF x.w < 500 THEN Num(LnInt(x.w * S6 + DivS(x.f, 6, x.d)) - 6 * LN10)
  ELSE IF x.w < 500000 THEN Num(LnInt(x.w * 1000 + XMilli(x)) - 3 * LN10)
  ELSE Num(LnInt(x.w))

logZScoreOf(lx, logMean, logStdDev) ==
  IF lx.k = "num" THEN ZQuot(lx.v - logMean, 0, logStdDev) ELSE lx
logZScore(x, logMean, logStdDev) == logZScoreOf(LogX(x), logMean, logStdDev)

\* lines 167-168, evaluated for any x.
\* p / (x * logStdDev) for p = exp(-0.5 z z) / sqrt(2 pi) at scale S9, x > 0.
lognormalOver(x, logStdDev, p) ==
  IF x.w = 0 THEN DensityOver(DivS(p, 0, Max(1, XMilli(x))), 6, logStdDev)
  ELSE IF x.w < 1000
       THEN DensityOver(DivS(p, 3, x.w * 1000 + XMilli(x)), 9, logStdDev)
  ELSE IF x.w < 2000000
       THEN DensityOver(DivS(p, 6, x.w * 1000 + XMilli(x)), 12, logStdDev)
       ELSE DensityOver(DivS(p, 3, x.w), 12, logStdDev)
lognormalDensityOf(x, logStdDev, e) ==
  IF e.k = "NaN" \/ x.w < 0 THEN NaN
  ELSE IF XIsZero(x) \/ logStdDev = 0 THEN (IF e.v = 0 THEN NaN ELSE PosInf)
  ELSE lognormalOver(x, logStdDev, Mul9(e.v, INV_SQRT_2PI))
lognormalDensity(x, logMean, logStdDev) ==
  lognormalDensityOf(x, logStdDev,
                     expHalfSqDouble(logZScore(x, logMean, logStdDev)))

\* lognormalPDF without its guard on x <= 0.
lognormalPDF_unguarded(x, logMean, logStdDev) ==
  lognormalDensity(x, logMean, logStdDev)

lognormalPDF(x, logMean, logStdDev) ==
  IF XNonPositive(x) THEN Num(0)
  ELSE lognormalDensity(x, logMean, logStdDev)

lognormalCDF(x, logMean, logStdDev) ==
  IF XNonPositive(x) THEN Num(0)
  ELSE normalCDFDouble(logZScore(x, logMean, logStdDev))

(***************************************************************************)
(* calculateInvestmentDistribution.  params has initialAssets in currency  *)
(* units (a whole number >= 0), expectedReturn and risk in tenths of a     *)
(* percent per year, years a whole number.  muRate and sigmaRate are at    *)
(* scale S9.                                                               *)
(***************************************************************************)
muRate(params) == params.expectedReturn * S6
sigmaRate(params) == params.risk * S6

\* sigmaRate alone in place of sigmaRate * Math.sqrt(years).
sigmaUnscaled(params) == params.risk * S6

\* sigmaRate * Math.sqrt(years), at scale S9.
sigmaSqrtYears(params) == Mul6(sigmaRate(params), SqrtS6(params.years * S6))

\* src/unnamed/part_002 lines 135-150: the normal approximation.
\* Math.pow(1 + muRate, years) is exp(years * log(1 + muRate)).
NormalStats(mean, sigmaSqrt) ==
  [mean |-> mean, stdDev |-> Mul9(mean, sigmaSqrt)]
calculateInvestmentDistributionNormal(params) ==
  IF params.initialAssets = 0 THEN NormalStats(0, sigmaSqrtYears(params))
  ELSE NormalStats(ExpAmount(LnInt(params.initialAssets)
                               + params.years * LogS9(S9 + muRate(params))),
                   sigmaSqrtYears(params))

\* The lognormal statistics with logMean lacking the -sigma^2/2 term.
LognormalStats_noDrift(params, sigma2, mean) ==
  [mean |-> mean,
   stdDev |-> Mul6(mean, SqrtS6(ExpPosS6((sigma2 \div 10) * params.years) - S6)),
   logMean |-> LnInt(params.initialAssets)
                 + DivS(muRate(params), 0, 10) * params.years,
   logStdDev |-> sigmaSqrtYears(params) \div 10]

\* src/utils/normalDistribution.ts lines 135-156: the lognormal model.
LognormalStats(params, sigma2, mean) ==
  [mean |-> mean,
   stdDev |-> Mul6(mean, SqrtS6(ExpPosS6((sigma2 \div 10) * params.years) - S6)),
   logMean |-> LnInt(params.initialAssets)
                 + DivS(muRate(params) - (sigma2 \div 2), 0, 10) * params.years,
   logStdDev |-> sigmaSqrtYears(params) \div 10]
\* With initialAssets = 0, Math.log(0) is -Infinity and so is logMean; mean
\* and stdDev are products of 0 with finite numbers.
ZeroAssetsStats(params) ==
  [mean |-> 0, stdDev |-> 0, logMean |-> NegInf,
   logStdDev |-> sigmaSqrtYears(params) \div 10]
calculateInvestmentDistribution(params) ==
  IF params.initialAssets = 0 THEN ZeroAssetsStats(params)
  ELSE LognormalStats(params, Mul9(sigmaRate(params), sigmaRate(params)),
                      ExpAmount(LnInt(params.initialAssets)
                                  + (muRate(params) \div 10) * params.years))

(***************************************************************************)
(* The discretizers, for numPoints >= 2.  The points run from xMin in      *)
(* steps of (xMax - xMin) / (numPoints - 1); sample i of the source is     *)
(* element i + 1 of the sequence.                                          *)
(***************************************************************************)
\* The points with a step of (xMax - xMin) / numPoints.
GridPoint_shortStep(xMin, xMax, u, d, i) ==
  LET q == (xMax - xMin) \div (d + 1)
      r == (xMax - xMin) % (d + 1)
      t == xMin + i * q + ((i * r) \div (d + 1))
  IN XPoint(t \div u, (t % u) * (d + 1) + ((i * r) % (d + 1)), u * (d + 1))

\* xMin + i * step with step = (xMax - xMin) / d, the bounds given in
\* units of 1/u.
GridPoint(xMin, xMax, u, d, i) ==
  LET q == (xMax - xMin) \div d
      r == (xMax - xMin) % d
      t == xMin + i * q + ((i * r) \div d)
  IN XPoint(t \div u, (t % u) * d + ((i * r) % d), u * d)

\* lines 226-246 (and src/unnamed/part_002 lines 160-180).
NormalSample(x, mean, stdDev) ==
  [x |-> x, y |-> normalPDFGeneral(x, mean, stdDev)]
NormalSamples(xMin, xMax, mean, stdDev, numPoints) ==
  [i \in 1..numPoints |->
     NormalSample(GridPoint(xMin, xMax, 1, numPoints - 1, i - 1), mean, stdDev)]
generateNormalDistributionData(mean, stdDev, numPoints, numStdDev) ==
  NormalSamples(Max(0, mean - numStdDev * stdDev), mean + numStdDev * stdDev,
                mean, stdDev, numPoints)

\* lines 192-216.
MilliMax == 14 * S8
LognormalSample(x, logMean, logStdDev) ==
  [x |-> x, y |-> lognormalPDF(x, logMean, logStdDev)]
LognormalSamples(xMin, xMax, u, logMean, logStdDev, numPoints) ==
  [i \in 1..numPoints |->
     LognormalSample(GridPoint(xMin, xMax, u, numPoints - 1, i - 1),
                     logMean, logStdDev)]
\* The bounds in units of 1/u: thousandths when u = 1000.
LognormalRange(logXMin, logXMax, u, logMean, logStdDev, numPoints) ==
  LognormalSamples(ExpAmount(logXMin + (IF u = 1 THEN 0 ELSE 3 * LN10)),
                   ExpAmount(logXMax + (IF u = 1 THEN 0 ELSE 3 * LN10)),
                   u, logMean, logStdDev, numPoints)
LognormalLogRange(logXMin, logXMax, logMean, logStdDev, numPoints) ==
  LognormalRange(logXMin, logXMax, IF logXMax < MilliMax THEN 1000 ELSE 1,
                 logMean, logStdDev, numPoints)
generateLognormalDistributionData(logMean, logStdDev, numPoints, numStdDev) ==
  LognormalLogRange(Max(0, logMean - numStdDev * logStdDev),
                    logMean + numStdDev * logStdDev,
                    logMean, logStdDev, numPoints)

(***************************************************************************)
(* Calls of the special-function core.  The argument x of a call is held   *)
(* at scale S6; erf receives it at scale S8.                               *)
(***************************************************************************)
MaxGrid == 80
GridStep == S6 \div 16
Grid == {i * GridStep : i \in -MaxGrid..MaxGrid}

Pending(args) == [fn |-> "none", args |-> args]
NoStats == [mean |-> -1, stdDev |-> -1]

(***************************************************************************)
(* Settings (src/unnamed/part_000).  Percentages of the threshold are in   *)
(* units of 1/PCT percent, so that 1 - threshold / 100 at scale S6 is      *)
(* S6 - threshold; expectedReturn and risk are in tenths of a percent, as  *)
(* calculateInvestmentDistribution above takes them.                       *)
(***************************************************************************)
PCT == S6 \div 100
defaultYears == 10

\* The invocations of generatePDF that may be under way at once (clicks of
\* the download button, src/unnamed/part_001 lines 874-876).
MaxClicks == 2

\* src/unnamed/part_000 lines 121-127.
defaultSettings ==
  [totalAssets |-> 10000000, investmentRatio |-> 50,
   probabilityThreshold |-> 98 * PCT, expectedReturn |-> 80, risk |-> 150]

\* The provider and the pages as they are before any page is opened.
InitSettings ==
  /\ settings = defaultSettings
  /\ stored = <<>>
  /\ formData = defaultSettings
  /\ tempProbabilityThreshold = <<>>
  /\ years = defaultYears
  /\ page = "home"
  /\ tempInvestmentRatio = <<>>
  /\ worstCaseAssets = <<>>
  /\ worstCaseLoss = <<>>
  /\ url = <<>>
  /\ shouldUpdateUrl = FALSE
  /\ clearPending = 0
  /\ isResetModalOpen = FALSE
  /\ pdfPc = [i \in 1..MaxClicks |-> "idle"]
  /\ attached = {}

(***************************************************************************)
(* JSON.stringify and JSON.parse of the settings record                    *)
(* (src/unnamed/part_000 lines 40-44 and 73).  A finite number is written  *)
(* as its shortest decimal text: a sign, the whole part, and the decimals  *)
(* without trailing zeros; Decimals gives the decimal places the unit of   *)
(* each field of the model carries.                                        *)
(***************************************************************************)
Decimals ==
  [totalAssets |-> 0, investmentRatio |-> 0, probabilityThreshold |-> 4,
   expectedReturn |-> 1, risk |-> 1]

RECURSIVE TrimZeros(_)
TrimZeros(ds) ==
  IF ds # <<>> /\ ds[Len(ds)] = 0
  THEN TrimZeros(SubSeq(ds, 1, Len(ds) - 1))
  ELSE ds

\* The text of a number with every decimal cut off.
NumberToString_whole(v, n) ==
  [neg |-> v < 0, int |-> Abs(v) \div (10 ^ n), frac |-> <<>>]

NumberToString(v, n) ==
  [neg |-> v < 0,
   int |-> Abs(v) \div (10 ^ n),
   frac |-> TrimZeros([i \in 1..n |-> (Abs(v) \div (10 ^ (n - i))) % 10])]

RECURSIVE FractionValue(_, _)
FractionValue(ds, n) ==
  IF ds = <<>> THEN 0
  ELSE ds[1] * (10 ^ (n - 1)) + FractionValue(Tail(ds), n - 1)

StringToNumber(t, n) ==
  (IF t.neg THEN -1 ELSE 1) * (t.int * (10 ^ n) + FractionValue(t.frac, n))

JSONStringify(s) == [f \in DOMAIN s |-> NumberToString(s[f], Decimals[f])]
JSONParse(t) == [f \in DOMAIN t |-> StringToNumber(t[f], Decimals[f])]

\* A text JSON.parse throws on (src/unnamed/part_000 lines 45-47).
NotJSON == [notJSON |-> NumberToString(0, 0)]
Parseable(t) == "notJSON" \notin DOMAIN t

\* src/unnamed/part_000 lines 34 and 40-48: the state after the load at
\* mount, for the entry of localStorage (<<>> when there is none).
LoadStored(entry) ==
  IF entry = <<>> \/ ~Parseable(entry[1])
  THEN defaultSettings
  ELSE JSONParse(entry[1])

\* A merge over the settings the provider started with, not over the
\* current ones.
Merge_overDefaults(prev, newSettings) ==
  [f \in DOMAIN prev |->
     IF f \in DOMAIN newSettings THEN newSettings[f] ELSE defaultSettings[f]]

\* src/unnamed/part_000 line 70 (and 208): { ...prev, ...newSettings }.
Merge(prev, newSettings) ==
  [f \in DOMAIN prev |->
     IF f \in DOMAIN newSettings THEN newSettings[f] ELSE prev[f]]

\* src/unnamed/part_000 lines 69-76: the new state of updateSettings and
\* what it writes to localStorage.
StoreSettings(newSettings) ==
  /\ settings' = Merge(settings, newSettings)
  /\ stored' = <<JSONStringify(settings')>>

\* A reset that leaves the entry of localStorage in place.
ClearSettings_keepStored ==
  /\ settings' = defaultSettings
  /\ UNCHANGED stored

\* src/unnamed/part_000 lines 81-85: the new state of resetSettings and the
\* removal of the entry of localStorage.
ClearSettings ==
  /\ settings' = defaultSettings
  /\ stored' = <<>>

\* src/unnamed/part_000 lines 68-78, with the URL-sync effect it triggers
\* (lines 53-66) run in the commit of the same event: updateSettings as a
\* page handler sees it.
UpdateSettings(newSettings) ==
  /\ StoreSettings(newSettings)
  /\ url' = <<settings'>>

\* src/unnamed/part_000 lines 80-90, with the deferred clearing of the URL
\* run before the next event: resetSettings as a page handler sees it.
ResetSettings ==
  /\ ClearSettings
  /\ url' = <<>>

InitErf ==
  /\ call \in {Pending(<<x>>) : x \in Grid}
  /\ ret = <<>>
  /\ stats = NoStats
  /\ InitSettings

Call_erf ==
  /\ call.fn = "none"
  /\ call' = [call EXCEPT !.fn = "erf"]
  /\ ret' = <<Num(erf(call.args[1] * 100))>>
  /\ UNCHANGED <<stats, uiVars>>

Call_normalCDF ==
  /\ call.fn = "none"
  /\ call' = [call EXCEPT !.fn = "normalCDF"]
  /\ ret' = <<Num(normalCDF(call.args[1]))>>
  /\ UNCHANGED <<stats, uiVars>>

Call_normalPDF ==
  /\ call.fn = "none"
  /\ call' = [call EXCEPT !.fn = "normalPDF"]
  /\ ret' = <<Num(normalPDF(call.args[1]))>>
  /\ UNCHANGED <<stats, uiVars>>

NextErf == Call_erf \/ Call_normalCDF \/ Call_normalPDF

SpecErf == InitErf /\ [][NextErf]_vars

\* 1e-6 and 2e-6 at scale S9, 1e-4 at scale S9.
Tol6 == S9 \div S6
Tol4 == S9 \div 10000

(***************************************************************************)
(* C8: erf is odd-symmetric: erf(-x) = -erf(x) within 1e-6 for every x,    *)
(* x = 0 (where the sign extraction takes 0 as non-negative) included.     *)
(***************************************************************************)
C8_ErfOdd ==
  call.fn = "erf" => Abs(erf(-(call.args[1] * 100)) + ret[1].v) <= Tol6

\* erf was applied to 0 and to a negative argument's mirror image.
C8_Witness == call.fn = "erf" /\ call.args[1] = 0 /\ ret[1].v = S9 - 999999999

(***************************************************************************)
(* C9: normalCDF(x) + normalCDF(-x) = 1 within 1e-6 for every x.           *)
(***************************************************************************)
C9_CdfComplement ==
  call.fn = "normalCDF"
    => Abs(ret[1].v + normalCDF(-call.args[1]) - S9) <= Tol6

C9_Witness ==
  /\ call.fn = "normalCDF" /\ call.args[1] = 20 * GridStep
  /\ ret[1].v > S9 \div 2 /\ ret[1].v < S9

(***************************************************************************)
(* C10: normalCDF(0) = 0.5 within 1e-6, and erf(0) is within 2e-6 of 0     *)
(* (a1..a5 sum to 1 closely enough).                                       *)
(***************************************************************************)
C10_CdfAtZero ==
  /\ (call.fn = "normalCDF" /\ call.args[1] = 0) => Abs(ret[1].v - S9 \div 2) <= Tol6
  /\ (call.fn = "erf" /\ call.args[1] = 0) => Abs(ret[1].v) <= 2 * Tol6

C10_Witness == call.fn = "normalCDF" /\ call.args[1] = 0 /\ Len(ret) = 1

(***************************************************************************)
(* Calls of normalInverseCDF, p at scale S6 drawn from a grid of step      *)
(* 0.005 that runs PMargin steps past 0 and past 1, and from the two       *)
(* representable neighbours of 0 and 1.                                    *)
(***************************************************************************)
PMargin == 3
PStep == S6 \div 200
PGrid == {i * PStep : i \in -PMargin..(200 + PMargin)} \cup {1, S6 - 1}

InitInverse ==
  /\ call \in {Pending(<<p>>) : p \in PGrid}
  /\ ret = <<>>
  /\ stats = NoStats
  /\ InitSettings

Call_normalInverseCDF ==
  /\ call.fn = "none"
  /\ call' = [call EXCEPT !.fn = "normalInverseCDF"]
  /\ ret' = <<normalInverseCDF(call.args[1])>>
  /\ UNCHANGED <<stats, uiVars>>

\* normalCDF applied to the number that normalInverseCDF returned.
RoundTrip_normalCDF ==
  /\ call.fn = "normalInverseCDF"
  /\ IsNum(ret[1])
  /\ call' = [fn |-> "normalCDF", args |-> <<ret[1].v>>]
  /\ ret' = <<Num(normalCDF(ret[1].v))>>
  /\ UNCHANGED <<stats, uiVars>>

NextInverse == Call_normalInverseCDF \/ RoundTrip_normalCDF

SpecInverse == InitInverse /\ [][NextInverse]_vars

(***************************************************************************)
(* C1: normalInverseCDF raises an error for p <= 0 and for p >= 1, returns *)
(* a finite number for every p strictly between, and never clamps p into   *)
(* range.                                                                  *)
(***************************************************************************)
C1_InverseCDFThrows ==
  call.fn = "normalInverseCDF"
    => LET p == call.args[1]
       IN /\ (p <= 0 \/ p >= S6) <=> (ret[1] = Thrown)
          /\ (p > 0 /\ p < S6) => IsNum(ret[1])

\* The call with p = 1 exactly has thrown.
C1_Witness ==
  /\ call.fn = "normalInverseCDF"
  /\ call.args[1] = S6
  /\ ret[1] = Thrown

(***************************************************************************)
(* C11: for every p strictly between 0 and 1, in the central branch        *)
(* (|p - 0.5| < 0.42) and in the tail branch alike,                        *)
(* normalCDF(normalInverseCDF(p)) = p within 1e-4.                         *)
(***************************************************************************)
C11_RoundTrip ==
  [][(call.fn = "normalInverseCDF" /\ call'.fn = "normalCDF")
       => Abs(ret'[1].v - call.args[1] * (S9 \div S6)) <= Tol4]_vars

\* normalCDF was applied to normalInverseCDF(0.005), a point of the lower
\* tail branch, and gave 0.005 back.
C11_Witness ==
  /\ call.fn = "normalCDF"
  /\ call.args[1] = invTail(PStep, PStep - (S6 \div 2))
  /\ call.args[1] < -2 * S6
  /\ Abs(ret[1].v - PStep * (S9 \div S6)) <= Tol4

(***************************************************************************)
(* Calls of the discretizers: directly, with arguments drawn from the      *)
(* grids below, and as a page makes them (src/unnamed/part_001 lines 49-61 *)
(* and 365-377): calculateInvestmentDistribution on the page's parameters, *)
(* then the discretizer on the statistics it returned, with PlotPoints     *)
(* points over PlotSpan standard deviations.                               *)
(***************************************************************************)
MaxPoints == 4
MaxSpan == 3
PlotPoints == 300
PlotSpan == 3

MeanGrid == {1, 100, 2061031}
StdDevGrid == {0, 10, 40, 1173159}
LogMeanGrid == {-S8, 3 * S8, 1440351055}
LogStdDevGrid == {0, S8 \div 4, 56920986}
ParamGrid ==
  [initialAssets : {1000000}, expectedReturn : {-20, 75}, risk : {0, 180},
   years : {1, 10}]

InitCurve ==
  /\ call = Pending(<<>>)
  /\ ret = <<>>
  /\ stats = NoStats
  /\ InitSettings

Call_generateNormalDistributionData ==
  /\ call.fn = "none"
  /\ \E mean \in MeanGrid, stdDev \in StdDevGrid,
        numPoints \in 2..MaxPoints, numStdDev \in 1..MaxSpan :
       /\ call' = [fn |-> "generateNormalDistributionData",
                   args |-> <<mean, stdDev, numPoints, numStdDev>>]
       /\ ret' = <<generateNormalDistributionData(mean, stdDev, numPoints, numStdDev)>>
  /\ UNCHANGED <<stats, uiVars>>

Call_generateLognormalDistributionData ==
  /\ call.fn = "none"
  /\ \E logMean \in LogMeanGrid, logStdDev \in LogStdDevGrid,
        numPoints \in 2..MaxPoints, numStdDev \in 1..MaxSpan :
       /\ call' = [fn |-> "generateLognormalDistributionData",
                   args |-> <<logMean, logStdDev, numPoints, numStdDev>>]
       /\ ret' = <<generateLognormalDistributionData(logMean, logStdDev,
                                                     numPoints, numStdDev)>>
  /\ UNCHANGED <<stats, uiVars>>

Call_calculateInvestmentDistributionNormal ==
  /\ call.fn = "none"
  /\ \E params \in ParamGrid :
       /\ call' = [fn |-> "calculateInvestmentDistributionNormal", args |-> <<params>>]
       /\ stats' = calculateInvestmentDistributionNormal(params)
       /\ ret' = <<stats'>>
  /\ UNCHANGED uiVars

Call_calculateInvestmentDistribution ==
  /\ call.fn = "none"
  /\ \E params \in ParamGrid :
       /\ call' = [fn |-> "calculateInvestmentDistribution", args |-> <<params>>]
       /\ stats' = calculateInvestmentDistribution(params)
       /\ ret' = <<stats'>>
  /\ UNCHANGED uiVars

\* src/unnamed/part_001 lines 58-61: distributionData of the normal page.
Plot_generateNormalDistributionData ==
  /\ call.fn = "calculateInvestmentDistributionNormal"
  /\ call' = [fn |-> "generateNormalDistributionData",
              args |-> <<stats.mean, stats.stdDev, PlotPoints, PlotSpan>>]
  /\ ret' = <<generateNormalDistributionData(stats.mean, stats.stdDev,
                                             PlotPoints, PlotSpan)>>
  /\ UNCHANGED <<stats, uiVars>>

\* src/unnamed/part_001 lines 374-377: distributionData of the lognormal page.
Plot_generateLognormalDistributionData ==
  /\ call.fn = "calculateInvestmentDistribution"
  /\ call' = [fn |-> "generateLognormalDistributionData",
              args |-> <<stats.logMean, stats.logStdDev, PlotPoints, PlotSpan>>]
  /\ ret' = <<generateLognormalDistributionData(stats.logMean, stats.logStdDev,
                                                PlotPoints, PlotSpan)>>
  /\ UNCHANGED <<stats, uiVars>>

NextCurve ==
  \/ Call_generateNormalDistributionData
  \/ Call_generateLognormalDistributionData
  \/ Call_calculateInvestmentDistributionNormal
  \/ Call_calculateInvestmentDistribution
  \/ Plot_generateNormalDistributionData
  \/ Plot_generateLognormalDistributionData

SpecCurve == InitCurve /\ [][NextCurve]_vars

\* C3: generateNormalDistributionData returns exactly numPoints samples whose
\* x values are strictly increasing, for every mean > 0, stdDev >= 0,
\* numStdDev > 0 and numPoints >= 2.
C3_NormalStrictlyIncreasing ==
  call.fn = "generateNormalDistributionData" =>
    LET data == ret[1]
        numPoints == call.args[3]
    IN /\ DOMAIN data = 1..numPoints
       /\ \A i \in 1..(numPoints - 1) : XLess(data[i].x, data[i + 1].x)

\* A curve for stdDev = 0 has been returned and its first two x are equal.
C3_Witness ==
  /\ call.fn = "generateNormalDistributionData"
  /\ call.args[2] = 0
  /\ call.args[1] > 0
  /\ ret[1][1].x = ret[1][2].x

\* C4: generateLognormalDistributionData returns exactly numPoints samples whose
\* x values are strictly increasing, for every logMean (also when
\* logMean + numStdDev * logStdDev < 0), logStdDev >= 0 and numPoints >= 2.
C4_LognormalStrictlyIncreasing ==
  call.fn = "generateLognormalDistributionData" =>
    LET data == ret[1]
        numPoints == call.args[3]
    IN /\ DOMAIN data = 1..numPoints
       /\ \A i \in 1..(numPoints - 1) : XLess(data[i].x, data[i + 1].x)

\* A curve whose upper log bound is negative has been returned and its second
\* x is below its first.
C4_Witness ==
  /\ call.fn = "generateLognormalDistributionData"
  /\ call.args[1] + call.args[4] * call.args[2] < 0
  /\ call.args[2] > 0
  /\ XLess(ret[1][2].x, ret[1][1].x)

C6_SamplesNonNegative ==
  (/\ stats # NoStats
   /\ call.fn \in {"generateNormalDistributionData",
                   "generateLognormalDistributionData"}) =>
    \A i \in DOMAIN ret[1] :
      /\ ret[1][i].x.w >= 0
      /\ IsNum(ret[1][i].y)
      /\ ret[1][i].y.v >= 0

\* The curve for statistics computed with risk = 0 has been returned and the
\* y of its first sample is NaN.
C6_Witness ==
  /\ stats # NoStats
  /\ stats.stdDev = 0
  /\ call.fn \in {"generateNormalDistributionData",
                  "generateLognormalDistributionData"}
  /\ ret[1][1].y = NaN

(***************************************************************************)
(* C16: with risk = 0 (stdDev = 0, logStdDev = 0) the curve a Distribution *)
(* page hands to the chart contains no sample whose y is NaN or Infinity.  *)
(***************************************************************************)
C16_ZeroRiskCurveIsFinite ==
  (/\ stats # NoStats
   /\ stats.stdDev = 0
   /\ call.fn \in {"generateNormalDistributionData",
                   "generateLognormalDistributionData"}
   /\ call.args[3] = PlotPoints) =>
    \A i \in DOMAIN ret[1] : ret[1][i].y \notin {NaN, PosInf, NegInf}

\* The lognormal page discretized statistics with logStdDev = 0: it did not
\* refuse, and the last of the 300 samples it returned has y = NaN.
C16_Witness ==
  /\ call.fn = "generateLognormalDistributionData"
  /\ call.args[2] = 0
  /\ stats # NoStats
  /\ stats.logStdDev = 0
  /\ Len(ret[1]) = PlotPoints
  /\ ret[1][PlotPoints].y = NaN

(***************************************************************************)
(* C12: the normal approximation returns                                   *)
(* mean = initialAssets * (1 + expectedReturn/100)^years and               *)
(* stdDev = mean * (risk/100) * sqrt(years); for initialAssets = 1000000,  *)
(* expectedReturn = 7.5, risk = 18, years = 10 the mean is within 1% of    *)
(* 2061032 and stdDev within 1% of 1173000.  The power is taken here by    *)
(* repeated multiplication, and the square root by comparing squares.      *)
(***************************************************************************)
RECURSIVE Compound(_, _)
Compound(factor, n) == IF n = 0 THEN S9 ELSE Mul9(Compound(factor, n - 1), factor)

ExampleParams ==
  [initialAssets |-> 1000000, expectedReturn |-> 75, risk |-> 180, years |-> 10]

SpreadRatioSquared(s) ==
  IF s.mean = 0 THEN 0
  ELSE Mul9(DivS(s.stdDev, 9, s.mean), DivS(s.stdDev, 9, s.mean))

C12_NormalApproximation ==
  call.fn = "calculateInvestmentDistributionNormal"
    => /\ Abs(ret[1].mean
               - Mul9(call.args[1].initialAssets,
                      Compound(S9 + muRate(call.args[1]), call.args[1].years))) <= 1
       /\ Abs(SpreadRatioSquared(ret[1])
               - Mul9(sigmaRate(call.args[1]), sigmaRate(call.args[1]))
                   * call.args[1].years) <= Tol4 \div 10
       /\ call.args[1] = ExampleParams
            => /\ Abs(ret[1].mean - 2061032) * 100 <= 2061032
               /\ Abs(ret[1].stdDev - 1173000) * 100 <= 1173000

\* The example has been computed: the mean is 1.075^10 million.
C12_Witness ==
  /\ call.fn = "calculateInvestmentDistributionNormal"
  /\ call.args[1] = ExampleParams
  /\ ret[1].mean = 2061031
  /\ ret[1].stdDev > 1170000 /\ ret[1].stdDev < 1176000

\* The lognormal statistics of the example, with logMean within 1e-4 of the
\* given value, and mean = exp(logMean + logStdDev^2 / 2) in every call.
LognormalExample(logMean) ==
  call.fn = "calculateInvestmentDistribution"
    => /\ Abs(ret[1].mean
               - ExpAmount(ret[1].logMean
                             + (Mul8(ret[1].logStdDev, ret[1].logStdDev) \div 2))) <= 1
       /\ call.args[1] = ExampleParams
            => /\ Abs(ret[1].logMean - logMean) <= S8 \div 10000
               /\ Abs(ret[1].logStdDev - 5692 * (S8 \div 10000)) <= S8 \div 10000
               /\ Abs(ret[1].mean - 2117000) * 100 <= 2117000

\* C13 as stated, with logMean within 1e-4 of 13.9654.
C13_LognormalExampleAsStated == LognormalExample(139654 * (S8 \div 10000))

(***************************************************************************)
(* C13: the lognormal calculateInvestmentDistribution, for                 *)
(* initialAssets = 1000000, expectedReturn = 7.5, risk = 18, years = 10,   *)
(* returns logMean = ln(1000000) + (0.075 - 0.18^2/2) * 10, logStdDev      *)
(* within 1e-4 of 0.5692 and mean within 1% of 2117000; and for every      *)
(* parameter record mean = exp(logMean + logStdDev^2 / 2).  The value of   *)
(* the formula for logMean is 14.4035.                                     *)
(***************************************************************************)
C13_LognormalExample == LognormalExample(144035 * (S8 \div 10000))

\* The example has been computed.
C13_Witness ==
  /\ call.fn = "calculateInvestmentDistribution"
  /\ call.args[1] = ExampleParams
  /\ ret[1].logMean > 14 * S8
  /\ ret[1].mean = 2117000

(***************************************************************************)
(* Calls of the general densities and distribution functions.              *)
(***************************************************************************)
XGrid ==
  {XWhole(-2), XWhole(-1), XWhole(0), XPoint(0, 1, 2), XWhole(1), XWhole(5),
   XWhole(1000000)}

InitDensity ==
  /\ call = Pending(<<>>)
  /\ ret = <<>>
  /\ stats = NoStats
  /\ InitSettings

Call_lognormalPDF ==
  /\ call.fn = "none"
  /\ \E x \in XGrid, logMean \in LogMeanGrid, logStdDev \in LogStdDevGrid :
       /\ call' = [fn |-> "lognormalPDF", args |-> <<x, logMean, logStdDev>>]
       /\ ret' = <<lognormalPDF(x, logMean, logStdDev)>>
  /\ UNCHANGED <<stats, uiVars>>

Call_lognormalCDF ==
  /\ call.fn = "none"
  /\ \E x \in XGrid, logMean \in LogMeanGrid, logStdDev \in LogStdDevGrid :
       /\ call' = [fn |-> "lognormalCDF", args |-> <<x, logMean, logStdDev>>]
       /\ ret' = <<lognormalCDF(x, logMean, logStdDev)>>
  /\ UNCHANGED <<stats, uiVars>>

Call_normalPDFGeneral ==
  /\ call.fn = "none"
  /\ \E x \in XGrid, mean \in MeanGrid, stdDev \in StdDevGrid :
       /\ call' = [fn |-> "normalPDFGeneral", args |-> <<x, mean, stdDev>>]
       /\ ret' = <<normalPDFGeneral(x, mean, stdDev)>>
  /\ UNCHANGED <<stats, uiVars>>

Call_normalCDFGeneral ==
  /\ call.fn = "none"
  /\ \E x \in XGrid, mean \in MeanGrid, stdDev \in StdDevGrid :
       /\ call' = [fn |-> "normalCDFGeneral", args |-> <<x, mean, stdDev>>]
       /\ ret' = <<normalCDFGeneral(x, mean, stdDev)>>
  /\ UNCHANGED <<stats, uiVars>>

NextDensity ==
  \/ Call_lognormalPDF
  \/ Call_lognormalCDF
  \/ Call_normalPDFGeneral
  \/ Call_normalCDFGeneral

SpecDensity == InitDensity /\ [][NextDensity]_vars

\* C7: lognormalPDF and lognormalCDF return exactly 0 for every x <= 0 and
\* every logMean and logStdDev, logStdDev = 0 included.
C7_LognormalZeroOutsideSupport ==
  (/\ call.fn \in {"lognormalPDF", "lognormalCDF"}
   /\ XNonPositive(call.args[1])) =>
    ret[1] = Num(0)

\* lognormalPDF has returned for x = 0 and logStdDev = 0.
C7_Witness ==
  /\ call.fn = "lognormalPDF"
  /\ call.args[1] = XWhole(0)
  /\ call.args[3] = 0
  /\ ret = <<Num(0)>>

(***************************************************************************)
(* The application: SettingsProvider (src/unnamed/part_000), the Settings  *)
(* page and the lognormal Distribution page (src/unnamed/part_001), and    *)
(* the menu that switches between the pages (src/components/Menu.tsx).     *)
(* A value typed into a field or read from a URL parameter is the result   *)
(* of parseFloat: Num(v) or NaN; an absent URL parameter is <<>>.          *)
(***************************************************************************)
pages == {"/", "/about/", "/settings/", "/distribution/"}

TotalAssetsInputs == {Num(0)}
InvestmentRatioInputs == {Num(101)}
ProbabilityThresholdInputs ==
  {NaN, Num(-(PCT \div 10)), Num(0), Num(905 * (PCT \div 10)), Num(100 * PCT),
   Num(100 * PCT + (PCT \div 10))}
ExpectedReturnInputs == {NaN}
RiskInputs == {Num(-10), Num(0)}
ThresholdSlider == {PCT \div 10, 50 * PCT, 999 * (PCT \div 10)}
YearsSlider == {1, defaultYears}
RatioSlider == {0, 50, 100}

FieldInputs ==
  [totalAssets |-> TotalAssetsInputs,
   investmentRatio |-> InvestmentRatioInputs,
   probabilityThreshold |-> ProbabilityThresholdInputs,
   expectedReturn |-> ExpectedReturnInputs,
   risk |-> RiskInputs]

Init ==
  /\ call = Pending(<<>>)
  /\ ret = <<>>
  /\ stats = NoStats
  /\ InitSettings

\* The page that is mounted has not failed to render.
Rendered == ret # <<Thrown>>

\* src/unnamed/part_000 lines 33-51: the provider is constructed (a page is
\* loaded) and reads the stored settings.
Mount_SettingsProvider ==
  /\ \E target \in pages : page' = target
  /\ settings' = LoadStored(stored)
  /\ formData' = settings'
  /\ tempProbabilityThreshold' = <<>>
  /\ tempInvestmentRatio' = <<>>
  /\ years' = defaultYears
  /\ call' = Pending(<<>>)
  /\ ret' = <<>>
  /\ stats' = NoStats
  /\ worstCaseAssets' = <<>>
  /\ worstCaseLoss' = <<>>
  /\ UNCHANGED <<stored, url>>
  /\ shouldUpdateUrl' = FALSE
  /\ clearPending' = 0
  /\ isResetModalOpen' = FALSE
  /\ pdfPc' = [i \in 1..MaxClicks |-> "idle"]
  /\ attached' = {}

\* src/components/Menu.tsx lines 30-44: a link of the menu; the page it opens
\* is constructed (src/unnamed/part_001 lines 355-356 and 1190).
Navigate ==
  /\ Rendered
  /\ \E target \in pages \ {page} : page' = target
  /\ formData' = settings
  /\ tempProbabilityThreshold' = <<>>
  /\ tempInvestmentRatio' = <<>>
  /\ years' = defaultYears
  /\ call' = Pending(<<>>)
  /\ ret' = <<>>
  /\ stats' = NoStats
  /\ worstCaseAssets' = <<>>
  /\ worstCaseLoss' = <<>>
  /\ url' = <<>>
  /\ UNCHANGED <<settings, stored>>
  /\ isResetModalOpen' = FALSE
  /\ UNCHANGED <<providerVars, pdfVars>>

\* src/unnamed/part_000 lines 144-186, one parameter each.
UrlAccepted(p, inRange) == p # <<>> /\ IsNum(p[1]) /\ inRange
UrlTotalAssets(p) == UrlAccepted(p, p[1].v > 0)
UrlInvestmentRatio(p) == UrlAccepted(p, p[1].v >= 0 /\ p[1].v <= 100)
UrlProbabilityThreshold(p) == UrlAccepted(p, p[1].v >= 0 /\ p[1].v <= 100 * PCT)
UrlExpectedReturn(p) == UrlAccepted(p, TRUE)
UrlRisk(p) == UrlAccepted(p, p[1].v >= 0)

\* Some parameter is applied (src/unnamed/part_000 line 187).
UrlApplies(params) ==
  \/ UrlTotalAssets(params.totalAssets)
  \/ UrlInvestmentRatio(params.investmentRatio)
  \/ UrlProbabilityThreshold(params.probabilityThreshold)
  \/ UrlExpectedReturn(params.expectedReturn)
  \/ UrlRisk(params.risk)

\* A restore that applies the parameters only when none of them is refused.
urlSettings_allOrNothing(prev, params) ==
  IF /\ params.totalAssets # <<>> => UrlTotalAssets(params.totalAssets)
     /\ params.investmentRatio # <<>>
          => UrlInvestmentRatio(params.investmentRatio)
     /\ params.probabilityThreshold # <<>>
          => UrlProbabilityThreshold(params.probabilityThreshold)
     /\ params.expectedReturn # <<>>
          => UrlExpectedReturn(params.expectedReturn)
     /\ params.risk # <<>> => UrlRisk(params.risk)
  THEN [f \in DOMAIN prev |->
          IF params[f] # <<>> THEN params[f][1].v ELSE prev[f]]
  ELSE prev

\* src/unnamed/part_000 lines 144-189: { ...prev, ...urlSettings }.
urlSettings(prev, params) ==
  [totalAssets |->
     IF UrlTotalAssets(params.totalAssets)
     THEN params.totalAssets[1].v ELSE prev.totalAssets,
   investmentRatio |->
     IF UrlInvestmentRatio(params.investmentRatio)
     THEN params.investmentRatio[1].v ELSE prev.investmentRatio,
   probabilityThreshold |->
     IF UrlProbabilityThreshold(params.probabilityThreshold)
     THEN params.probabilityThreshold[1].v ELSE prev.probabilityThreshold,
   expectedReturn |->
     IF UrlExpectedReturn(params.expectedReturn)
     THEN params.expectedReturn[1].v ELSE prev.expectedReturn,
   risk |-> IF UrlRisk(params.risk) THEN params.risk[1].v ELSE prev.risk]

\* searchParams.get and parseFloat for the five parameters.
UrlParams(assets, ratio, threshold, return, risk) ==
  [totalAssets |-> assets, investmentRatio |-> ratio,
   probabilityThreshold |-> threshold, expectedReturn |-> return,
   risk |-> risk]

\* src/unnamed/part_000 lines 144-186: the settings are restored from the
\* parameters of the URL; the form follows them (part_001 lines 1206-1208).
\* The effect runs when the query of the URL changes, which is when a page
\* is opened: the state of the page is as constructed.
RestoreFromUrl ==
  /\ call.fn = "none"
  /\ tempProbabilityThreshold = <<>>
  /\ tempInvestmentRatio = <<>>
  /\ years = defaultYears
  /\ formData = settings
  /\ \E totalAssets \in {<<>>} \cup {<<v>> : v \in TotalAssetsInputs},
        investmentRatio \in {<<>>} \cup {<<v>> : v \in InvestmentRatioInputs},
        probabilityThreshold \in
          {<<>>} \cup {<<v>> : v \in ProbabilityThresholdInputs},
        expectedReturn \in {<<>>} \cup {<<v>> : v \in ExpectedReturnInputs},
        risk \in {<<>>} \cup {<<v>> : v \in RiskInputs} :
       /\ UrlApplies(UrlParams(totalAssets, investmentRatio,
                               probabilityThreshold, expectedReturn, risk))
       /\ settings' =
            urlSettings(settings,
                        UrlParams(totalAssets, investmentRatio,
                                  probabilityThreshold, expectedReturn, risk))
  /\ formData' = settings'
  /\ call' = Pending(<<>>)
  /\ ret' = <<>>
  /\ worstCaseAssets' = <<>>
  /\ worstCaseLoss' = <<>>
  /\ UNCHANGED <<stats, stored, tempProbabilityThreshold, tempInvestmentRatio,
                 years, page, url>>
  /\ UNCHANGED <<providerVars, isResetModalOpen, pdfVars>>

\* src/unnamed/part_001 lines 1211-1216.
handleChange ==
  /\ page = "/settings/"
  /\ \E field \in DOMAIN FieldInputs :
       \E value \in FieldInputs[field] :
         formData' = IF IsNum(value)
                     THEN [formData EXCEPT ![field] = value.v]
                     ELSE formData
  /\ UNCHANGED <<call, ret, stats, settings, stored, tempProbabilityThreshold,
                 tempInvestmentRatio, years, page, worstCaseAssets,
                 worstCaseLoss, url>>
  /\ UNCHANGED <<providerVars, isResetModalOpen, pdfVars>>

\* The message the page shows last (toast.error, toast.success, toast.info
\* of react-toastify, src/unnamed/part_001 lines 1223-1268).
Toast(kind) == [k |-> kind, v |-> 0]

\* src/unnamed/part_001 lines 1177-1184, in tenths of a percent.
assetClasses ==
  <<[expectedReturn |-> 50, risk |-> 200],
    [expectedReturn |-> 70, risk |-> 220],
    [expectedReturn |-> 85, risk |-> 280],
    [expectedReturn |-> 75, risk |-> 230],
    [expectedReturn |-> 10, risk |-> 30],
    [expectedReturn |-> 25, risk |-> 80]>>

\* src/unnamed/part_001 lines 1262-1269 (the buttons of lines 1410-1424).
handleApplyAssetClass ==
  /\ page = "/settings/"
  /\ \E index \in DOMAIN assetClasses :
       formData' = Merge(formData, assetClasses[index])
  /\ ret' = <<Toast("success")>>
  /\ UNCHANGED <<call, stats, settings, stored, tempProbabilityThreshold,
                 tempInvestmentRatio, years, page, worstCaseAssets,
                 worstCaseLoss, url, providerVars, isResetModalOpen, pdfVars>>

\* The comparison without its last field.
hasUnsavedChanges_noRisk ==
  \/ formData.totalAssets # settings.totalAssets
  \/ formData.investmentRatio # settings.investmentRatio
  \/ formData.probabilityThreshold # settings.probabilityThreshold
  \/ formData.expectedReturn # settings.expectedReturn

\* src/unnamed/part_001 lines 1195-1204.
hasUnsavedChanges ==
  \/ formData.totalAssets # settings.totalAssets
  \/ formData.investmentRatio # settings.investmentRatio
  \/ formData.probabilityThreshold # settings.probabilityThreshold
  \/ formData.expectedReturn # settings.expectedReturn
  \/ formData.risk # settings.risk

\* The validation without its last test.
FormValid_noRiskTest ==
  /\ ~(formData.totalAssets <= 0)
  /\ ~(formData.investmentRatio < 0 \/ formData.investmentRatio > 100)
  /\ ~(formData.probabilityThreshold < 0
       \/ formData.probabilityThreshold > 100 * PCT)

\* src/unnamed/part_001 lines 1221-1239: the validation of handleSubmit.
FormValid ==
  /\ ~(formData.totalAssets <= 0)
  /\ ~(formData.investmentRatio < 0 \/ formData.investmentRatio > 100)
  /\ ~(formData.probabilityThreshold < 0
       \/ formData.probabilityThreshold > 100 * PCT)
  /\ ~(formData.risk < 0)

\* src/unnamed/part_001 lines 1218-1244, with updateSettings
\* (src/unnamed/part_000 lines 68-78).
handleSubmit ==
  /\ page = "/settings/"
  /\ IF FormValid
     THEN UpdateSettings(formData) /\ ret' = <<Toast("success")>>
     ELSE UNCHANGED <<settings, stored, url>> /\ ret' = <<Toast("error")>>
  /\ UNCHANGED <<call, stats, formData, tempProbabilityThreshold,
                 tempInvestmentRatio, years, page, worstCaseAssets,
                 worstCaseLoss>>
  /\ UNCHANGED <<providerVars, isResetModalOpen, pdfVars>>

\* A Reset button that resets at once, without the modal.
handleResetClick_resetsAtOnce ==
  /\ page = "/settings/"
  /\ ResetSettings
  /\ formData' = defaultSettings
  /\ ret' = <<Toast("info")>>
  /\ UNCHANGED <<call, stats, tempProbabilityThreshold, years,
                 tempInvestmentRatio, page, worstCaseAssets, worstCaseLoss,
                 providerVars, isResetModalOpen, pdfVars>>

\* src/unnamed/part_001 lines 1246-1248 (the Reset button, line 1440).
handleResetClick ==
  /\ page = "/settings/"
  /\ isResetModalOpen' = TRUE
  /\ UNCHANGED <<call, ret, stats, settings, stored, formData,
                 tempProbabilityThreshold, years, tempInvestmentRatio, page,
                 worstCaseAssets, worstCaseLoss, url, providerVars, pdfVars>>

\* src/unnamed/part_001 lines 1258-1260 (the Cancel button and closeModal of
\* the modal, lines 1471-1484).
handleResetCancel ==
  /\ page = "/settings/"
  /\ isResetModalOpen
  /\ isResetModalOpen' = FALSE
  /\ UNCHANGED <<call, ret, stats, settings, stored, formData,
                 tempProbabilityThreshold, years, tempInvestmentRatio, page,
                 worstCaseAssets, worstCaseLoss, url, providerVars, pdfVars>>

\* src/unnamed/part_001 lines 1250-1256 (the Confirm button of the modal,
\* line 1485), with resetSettings (src/unnamed/part_000 lines 80-90).
handleResetConfirm ==
  /\ page = "/settings/"
  /\ isResetModalOpen
  /\ ResetSettings
  /\ formData' = defaultSettings
  /\ ret' = <<Toast("info")>>
  /\ UNCHANGED <<call, stats, tempProbabilityThreshold,
                 tempInvestmentRatio, years, page, worstCaseAssets,
                 worstCaseLoss>>
  /\ isResetModalOpen' = FALSE
  /\ UNCHANGED <<providerVars, pdfVars>>

\* src/unnamed/part_001 lines 1033-1039: the threshold slider.
setTempProbabilityThreshold ==
  /\ page = "/distribution/"
  /\ call.fn # "none"
  /\ Rendered
  /\ \E value \in ThresholdSlider : tempProbabilityThreshold' = <<value>>
  /\ call' = Pending(<<>>)
  /\ ret' = <<>>
  /\ worstCaseAssets' = <<>>
  /\ worstCaseLoss' = <<>>
  /\ UNCHANGED <<stats, settings, stored, formData, tempInvestmentRatio, years,
                 page, url>>
  /\ UNCHANGED <<providerVars, isResetModalOpen, pdfVars>>

\* src/unnamed/part_001 lines 1045-1052: the ratio slider.
setTempInvestmentRatio ==
  /\ page = "/distribution/"
  /\ call.fn # "none"
  /\ Rendered
  /\ \E value \in RatioSlider : tempInvestmentRatio' = <<value>>
  /\ call' = Pending(<<>>)
  /\ ret' = <<>>
  /\ worstCaseAssets' = <<>>
  /\ worstCaseLoss' = <<>>
  /\ UNCHANGED <<stats, settings, stored, formData, tempProbabilityThreshold,
                 years, page, url>>
  /\ UNCHANGED <<providerVars, isResetModalOpen, pdfVars>>

\* src/unnamed/part_001 lines 898-903: the years slider.
setYears ==
  /\ page = "/distribution/"
  /\ call.fn # "none"
  /\ Rendered
  /\ \E value \in YearsSlider : years' = value
  /\ call' = Pending(<<>>)
  /\ ret' = <<>>
  /\ worstCaseAssets' = <<>>
  /\ worstCaseLoss' = <<>>
  /\ UNCHANGED <<stats, settings, stored, formData, tempProbabilityThreshold,
                 tempInvestmentRatio, page, url>>
  /\ UNCHANGED <<providerVars, isResetModalOpen, pdfVars>>

\* The threshold of the settings, whatever the slider says.
currentProbabilityThreshold_settingsOnly == settings.probabilityThreshold

\* src/unnamed/part_001 lines 589-590.
currentProbabilityThreshold ==
  IF tempProbabilityThreshold = <<>>
  THEN settings.probabilityThreshold
  ELSE tempProbabilityThreshold[1]

\* src/unnamed/part_001 lines 361-362 (and 45-46).
currentInvestmentRatio ==
  IF tempInvestmentRatio = <<>>
  THEN settings.investmentRatio
  ELSE tempInvestmentRatio[1]
investmentAmount == (settings.totalAssets * currentInvestmentRatio) \div 100

\* The parameters both pages pass to calculateInvestmentDistribution.
PageParams ==
  [initialAssets |-> investmentAmount,
   expectedReturn |-> settings.expectedReturn,
   risk |-> settings.risk, years |-> years]

\* mean + zScore * stdDev without Math.max(0, ..).
worstCaseAssetsNormal_unclipped(s, z) == s.mean + Mul6(z, s.stdDev)

\* src/unnamed/part_001 line 163, z at scale S6.
worstCaseAssetsNormal(s, z) == Max(0, s.mean + Mul6(z, s.stdDev))

\* src/unnamed/part_001 line 594.  With initialAssets = 0 logMean is
\* -Infinity, and Math.exp(-Infinity) is 0.
worstCaseAssetsLognormal(initialAssets, s, z) ==
  IF initialAssets = 0 THEN 0
  ELSE ExpAmount(s.logMean + Mul6(z, s.logStdDev))

\* A render of the Distribution page: the statistics s, the z-score z that
\* normalInverseCDF returned and the worst case (lines 592-595 and 162-164);
\* nothing is computed after normalInverseCDF threw.
RenderWith(s, z, assets) ==
  /\ page = "/distribution/"
  /\ call.fn = "none"
  /\ stats' = s
  /\ call' = [fn |-> "normalInverseCDF",
              args |-> <<S6 - currentProbabilityThreshold>>]
  /\ ret' = <<z>>
  /\ worstCaseAssets' = IF IsNum(z) THEN <<assets>> ELSE <<>>
  /\ worstCaseLoss' = IF IsNum(z) THEN <<assets - investmentAmount>> ELSE <<>>
  /\ UNCHANGED <<settings, stored, formData, tempProbabilityThreshold, years,
                 page, tempInvestmentRatio, url>>
  /\ UNCHANGED <<providerVars, isResetModalOpen, pdfVars>>

RenderLognormal(s, z) ==
  RenderWith(s, z, IF IsNum(z)
                   THEN worstCaseAssetsLognormal(investmentAmount, s, z.v)
                   ELSE 0)
RenderNormal(s, z) ==
  RenderWith(s, z, IF IsNum(z) THEN worstCaseAssetsNormal(s, z.v) ELSE 0)

\* src/unnamed/part_001 lines 353-372 and 586-595: the lognormal Distribution
\* page renders.  Its distributionData (lines 375-377) is
\* Plot_generateLognormalDistributionData.
Render_DistributionPage ==
  RenderLognormal(calculateInvestmentDistribution(PageParams),
                  normalInverseCDF(S6 - currentProbabilityThreshold))

\* src/unnamed/part_001 lines 38-56 and 157-164: the Distribution page of the
\* normal approximation renders.
Render_DistributionPageNormal ==
  RenderNormal(calculateInvestmentDistributionNormal(PageParams),
               normalInverseCDF(S6 - currentProbabilityThreshold))

Next ==
  \/ Mount_SettingsProvider
  \/ Navigate
  \/ RestoreFromUrl
  \/ handleChange
  \/ handleSubmit
  \/ handleResetClick
  \/ handleResetCancel
  \/ handleResetConfirm
  \/ setTempProbabilityThreshold
  \/ setTempInvestmentRatio
  \/ setYears
  \/ Render_DistributionPage
  \/ Render_DistributionPageNormal

Spec == Init /\ [][Next]_vars

\* C2: whatever settings were saved, loaded from the URL or from storage, and
\* wherever the slider stands, the probability the Distribution page passes
\* to normalInverseCDF is strictly inside (0, 1) and the call does not throw.
C2_RenderProbabilityInsideUnitInterval ==
  call.fn = "normalInverseCDF" =>
    /\ 0 < call.args[1]
    /\ call.args[1] < S6
    /\ ret # <<Thrown>>

\* A threshold of 100 was saved and the Distribution page, rendering with
\* it, called normalInverseCDF(0), which threw.
C2_Witness ==
  /\ page = "/distribution/"
  /\ stored # <<>>
  /\ settings.probabilityThreshold = 100 * PCT
  /\ tempProbabilityThreshold = <<>>
  /\ call = [fn |-> "normalInverseCDF", args |-> <<0>>]
  /\ ret = <<Thrown>>

C18_InitialAssetsPositive ==
  call.fn = "normalInverseCDF" => PageParams.initialAssets > 0

\* The ratio slider was moved to 0 and the page rendered: it called
\* calculateInvestmentDistribution with initialAssets = 0.
C18_Witness ==
  /\ call.fn = "normalInverseCDF"
  /\ tempInvestmentRatio = <<0>>
  /\ settings.totalAssets > 0
  /\ PageParams.initialAssets = 0
  /\ stats.mean = 0

(***************************************************************************)
(* The worst case as a function of the risk: a page renders with one risk  *)
(* and then with a higher one, everything else held fixed, at the          *)
(* threshold of 90%.  The call holds the parameters of the first render    *)
(* and the risk of the second, ret the worstCaseLoss of the two renders.   *)
(***************************************************************************)
WorstCaseRisks == {0, 50, 150, 200, 300, 400, 600}
WorstCaseYears == {1, defaultYears}
WorstCaseThreshold == 90 * PCT
WorstCaseAssets ==
  (defaultSettings.totalAssets * defaultSettings.investmentRatio) \div 100

worstCaseLossNormal(params, z) ==
  worstCaseAssetsNormal(calculateInvestmentDistributionNormal(params), z)
    - params.initialAssets
worstCaseLossLognormal(params, z) ==
  worstCaseAssetsLognormal(params.initialAssets,
                           calculateInvestmentDistribution(params), z)
    - params.initialAssets

InitWorstCase ==
  /\ call \in {Pending(<<[initialAssets |-> WorstCaseAssets,
                          expectedReturn |-> defaultSettings.expectedReturn,
                          risk |-> r1, years |-> y], r2>>) :
                 <<r1, r2, y>> \in {t \in WorstCaseRisks \X WorstCaseRisks
                                            \X WorstCaseYears : t[1] < t[2]}}
  /\ ret = <<>>
  /\ stats = NoStats
  /\ InitSettings

Render_twiceNormal ==
  /\ call.fn = "none"
  /\ call' = [call EXCEPT !.fn = "worstCaseLossNormal"]
  /\ ret' = <<worstCaseLossNormal(call.args[1],
                                  normalInverseCDF(S6 - WorstCaseThreshold).v),
              worstCaseLossNormal([call.args[1] EXCEPT !.risk = call.args[2]],
                                  normalInverseCDF(S6 - WorstCaseThreshold).v)>>
  /\ UNCHANGED <<stats, uiVars>>

Render_twiceLognormal ==
  /\ call.fn = "none"
  /\ call' = [call EXCEPT !.fn = "worstCaseLossLognormal"]
  /\ ret' = <<worstCaseLossLognormal(call.args[1],
                                     normalInverseCDF(S6 - WorstCaseThreshold).v),
              worstCaseLossLognormal([call.args[1] EXCEPT !.risk = call.args[2]],
                                     normalInverseCDF(S6 - WorstCaseThreshold).v)>>
  /\ UNCHANGED <<stats, uiVars>>

NextWorstCase == Render_twiceNormal \/ Render_twiceLognormal

SpecWorstCase == InitWorstCase /\ [][NextWorstCase]_vars

(***************************************************************************)
(* C15: at probabilityThreshold = 90, with initialAssets, expectedReturn   *)
(* and years fixed, worstCaseLoss strictly decreases as risk increases:    *)
(* for r1 < r2, worstCaseLoss(r2) < worstCaseLoss(r1), in the normal       *)
(* variant as well as in the lognormal variant.                            *)
(***************************************************************************)
C15_LossStrictlyDecreasesWithRisk ==
  call.fn \in {"worstCaseLossNormal", "worstCaseLossLognormal"}
    => ret[2] < ret[1]

\* The normal page rendered with risks of 30% and 40% over ten years: both
\* worst cases are clipped at 0 and the two losses are the same.
C15_Witness ==
  /\ call.fn = "worstCaseLossNormal"
  /\ call.args[1].risk = 300 /\ call.args[2] = 400
  /\ call.args[1].years = defaultYears
  /\ ret = <<-call.args[1].initialAssets, -call.args[1].initialAssets>>

\* In the lognormal variant, and in the normal variant while the worst
\* case of the higher risk is not clipped, the loss strictly decreases.
C15_DecreasesUnlessClipped ==
  /\ call.fn = "worstCaseLossLognormal" => ret[2] < ret[1]
  /\ call.fn = "worstCaseLossNormal"
       => /\ ret[2] <= ret[1]
          /\ ret[2] > -call.args[1].initialAssets => ret[2] < ret[1]

(***************************************************************************)
(* Repeated calls of the evaluators of the core, in any order.  In this    *)
(* specification call is the sequence of the calls made so far and ret the *)
(* sequence of what they returned.  The module has no state outside the    *)
(* bodies of its functions (src/utils/normalDistribution.ts lines 1-246):  *)
(* what a call returns is computed from its arguments, whatever the calls  *)
(* made before it.                                                         *)
(***************************************************************************)
MaxCalls == 3

Discretizers ==
  {"generateNormalDistributionData", "generateLognormalDistributionData"}

EvaluatorCalls ==
  <<[fn |-> "normalCDF", args |-> <<0>>],
   [fn |-> "normalCDF", args |-> <<S6>>],
   [fn |-> "normalPDF", args |-> <<S6>>],
   [fn |-> "normalPDFGeneral", args |-> <<XWhole(5), 1, 10>>],
   [fn |-> "normalCDFGeneral", args |-> <<XWhole(5), 1, 10>>],
   [fn |-> "normalInverseCDF", args |-> <<0>>],
   [fn |-> "normalInverseCDF", args |-> <<PStep>>],
   [fn |-> "calculateInvestmentDistribution", args |-> <<ExampleParams>>],
   [fn |-> "lognormalPDF", args |-> <<XWhole(5), 3 * S8, S8 \div 4>>],
   [fn |-> "lognormalCDF", args |-> <<XWhole(5), 3 * S8, S8 \div 4>>],
   [fn |-> "generateNormalDistributionData", args |-> <<100, 10, 3, 3>>],
   [fn |-> "generateLognormalDistributionData",
    args |-> <<3 * S8, S8 \div 4, 3, 3>>]>>

Apply(fn, args) ==
  CASE fn = "normalCDF" -> Num(normalCDF(args[1]))
    [] fn = "normalPDF" -> Num(normalPDF(args[1]))
    [] fn = "normalPDFGeneral" -> normalPDFGeneral(args[1], args[2], args[3])
    [] fn = "normalCDFGeneral" -> normalCDFGeneral(args[1], args[2], args[3])
    [] fn = "normalInverseCDF" -> normalInverseCDF(args[1])
    [] fn = "calculateInvestmentDistribution" ->
         calculateInvestmentDistribution(args[1])
    [] fn = "lognormalPDF" -> lognormalPDF(args[1], args[2], args[3])
    [] fn = "lognormalCDF" -> lognormalCDF(args[1], args[2], args[3])
    [] fn = "generateNormalDistributionData" ->
         generateNormalDistributionData(args[1], args[2], args[3], args[4])
    [] fn = "generateLognormalDistributionData" ->
         generateLognormalDistributionData(args[1], args[2], args[3], args[4])

\* The discretizers pushing into one array shared by all their calls
\* instead of a fresh `data` each: a call returns the samples of every
\* earlier call followed by its own.
Evaluate_sharedData(c, calls, rets) ==
  IF c.fn \in Discretizers
       /\ \E i \in DOMAIN calls : calls[i].fn \in Discretizers
  THEN rets[CHOOSE i \in DOMAIN calls :
              /\ calls[i].fn \in Discretizers
              /\ \A j \in DOMAIN calls : calls[j].fn \in Discretizers => j <= i]
         \o Apply(c.fn, c.args)
  ELSE Apply(c.fn, c.args)

\* What the call c returns after the calls made before it.
Evaluate(c, calls, rets) == Apply(c.fn, c.args)

InitEvaluators ==
  /\ call = <<>>
  /\ ret = <<>>
  /\ stats = NoStats
  /\ InitSettings

Call_evaluator ==
  /\ Len(call) < MaxCalls
  /\ \E k \in DOMAIN EvaluatorCalls :
       /\ call' = Append(call, EvaluatorCalls[k])
       /\ ret' = Append(ret, Evaluate(EvaluatorCalls[k], call, ret))
  /\ UNCHANGED <<stats, uiVars>>

NextEvaluators == Call_evaluator

SpecEvaluators == InitEvaluators /\ [][NextEvaluators]_vars

C20_SlidersAreEphemeral ==
  [][/\ (setTempProbabilityThreshold \/ setTempInvestmentRatio \/ setYears)
          => UNCHANGED <<settings, stored, url>>
     /\ (call'.fn = "normalInverseCDF") =>
          /\ call'.args[1] =
               S6 - (IF tempProbabilityThreshold' = <<>>
                     THEN settings'.probabilityThreshold
                     ELSE tempProbabilityThreshold'[1])
          /\ (worstCaseLoss' # <<>>) =>
               worstCaseAssets'[1] - worstCaseLoss'[1] =
                 (settings'.totalAssets *
                    (IF tempInvestmentRatio' = <<>>
                     THEN settings'.investmentRatio
                     ELSE tempInvestmentRatio'[1])) \div 100]_vars

\* Settings with a threshold of 90.5 % were saved; on the Distribution page
\* both sliders were moved (threshold 50 %, ratio 100 %) and the page was
\* rendered with the slider values, the saved settings being as they were.
C20_Witness ==
  /\ page = "/distribution/"
  /\ call.fn = "normalInverseCDF"
  /\ stored # <<>>
  /\ settings = JSONParse(stored[1])
  /\ settings.probabilityThreshold = 905 * (PCT \div 10)
  /\ tempProbabilityThreshold = <<50 * PCT>>
  /\ tempInvestmentRatio = <<100>>
  /\ call.args[1] = S6 \div 2
  /\ worstCaseLoss # <<>>
  /\ worstCaseAssets[1] - worstCaseLoss[1] = settings.totalAssets

(***************************************************************************)
(* The provider alone (src/unnamed/part_000 lines 32-97): updateSettings   *)
(* with partial records, resetSettings, and the provider being unmounted   *)
(* and mounted again.  call names the last operation of the provider.      *)
(***************************************************************************)
PartialSettings ==
  {[probabilityThreshold |-> 905 * (PCT \div 10)],
   [expectedReturn |-> -75, risk |-> 180],
   [totalAssets |-> 1000000, investmentRatio |-> 50,
    probabilityThreshold |-> 90 * PCT, expectedReturn |-> 75, risk |-> 180]}

\* The timers of resetSettings that may be pending at once.
MaxTimers == 2

\* src/unnamed/part_000 lines 68-78.
updateSettings ==
  /\ \E newSettings \in PartialSettings :
       /\ StoreSettings(newSettings)
       /\ call' = [fn |-> "updateSettings", args |-> <<newSettings>>]
  /\ shouldUpdateUrl' = TRUE
  /\ UNCHANGED <<ret, stats, formData, tempProbabilityThreshold, years, page,
                 tempInvestmentRatio, worstCaseAssets, worstCaseLoss, url,
                 clearPending, isResetModalOpen, pdfVars>>

\* The effect writes the URL and leaves the flag up.
UrlSyncEffect_keepsFlag ==
  /\ shouldUpdateUrl
  /\ url' = <<settings>>
  /\ UNCHANGED <<call, ret, stats, settings, stored, formData,
                 tempProbabilityThreshold, years, page, tempInvestmentRatio,
                 worstCaseAssets, worstCaseLoss, providerVars,
                 isResetModalOpen, pdfVars>>

\* src/unnamed/part_000 lines 53-66 (192-206): the URL-sync effect.
UrlSyncEffect ==
  /\ shouldUpdateUrl
  /\ url' = <<settings>>
  /\ shouldUpdateUrl' = FALSE
  /\ UNCHANGED <<call, ret, stats, settings, stored, formData,
                 tempProbabilityThreshold, years, page, tempInvestmentRatio,
                 worstCaseAssets, worstCaseLoss, clearPending,
                 isResetModalOpen, pdfVars>>

\* src/unnamed/part_000 lines 80-90 (213-219).
resetSettings ==
  /\ clearPending < MaxTimers
  /\ ClearSettings
  /\ clearPending' = clearPending + 1
  /\ call' = [fn |-> "resetSettings", args |-> <<>>]
  /\ UNCHANGED <<ret, stats, formData, tempProbabilityThreshold, years, page,
                 tempInvestmentRatio, worstCaseAssets, worstCaseLoss, url,
                 shouldUpdateUrl, isResetModalOpen, pdfVars>>

\* src/unnamed/part_000 lines 87-89 (216-218): the callback of setTimeout.
DeferredClear ==
  /\ clearPending > 0
  /\ url' = <<>>
  /\ clearPending' = clearPending - 1
  /\ UNCHANGED <<call, ret, stats, settings, stored, formData,
                 tempProbabilityThreshold, years, page, tempInvestmentRatio,
                 worstCaseAssets, worstCaseLoss, shouldUpdateUrl,
                 isResetModalOpen, pdfVars>>

NextProvider ==
  \/ updateSettings
  \/ UrlSyncEffect
  \/ resetSettings
  \/ DeferredClear
  \/ Mount_SettingsProvider
SpecProvider == Init /\ [][NextProvider]_vars

\* React runs a pending effect after the commit, and the browser fires a
\* pending timer.
SpecProviderLive ==
  /\ Init
  /\ [][NextProvider]_vars
  /\ WF_vars(UrlSyncEffect)
  /\ WF_vars(DeferredClear)

\* The last operation on the store, and nothing of it left to run.
Quiescent == ~shouldUpdateUrl /\ clearPending = 0

(***************************************************************************)
(* C21: after resetSettings the settings record equals defaultSettings in  *)
(* all five fields and the entry of localStorage is absent; and once the   *)
(* deferred step has run with no further operation in between, the URL     *)
(* carries no query parameters (while a timer is pending the deferred step *)
(* runs, unless another operation comes first).                            *)
(***************************************************************************)
C21_ResetClears ==
  /\ [][(call'.fn = "resetSettings" /\ clearPending' = clearPending + 1)
          => /\ \A f \in DOMAIN defaultSettings :
                  settings'[f] = defaultSettings[f]
             /\ stored' = <<>>]_vars
  /\ [][(call.fn = "resetSettings" /\ call' = call
            /\ clearPending' = clearPending - 1)
          => /\ url' = <<>>
             /\ settings' = defaultSettings
             /\ stored' = <<>>]_vars
  /\ (call.fn = "resetSettings" /\ clearPending > 0)
       ~> (url = <<>> \/ call.fn # "resetSettings")

\* resetSettings was the last operation and its timer has fired: defaults,
\* no entry in localStorage, no query.
C21_Witness ==
  /\ call.fn = "resetSettings"
  /\ Quiescent
  /\ settings = defaultSettings
  /\ stored = <<>>
  /\ url = <<>>
  /\ page = "home"

(***************************************************************************)
(* C22: after every updateSettings call the URL-sync effect eventually     *)
(* runs, once for that update: the query then holds the five fields of the *)
(* current settings and shouldUpdateUrl is back to false, and no query is  *)
(* written again until the next updateSettings raises the flag.            *)
(***************************************************************************)
C22_UrlSyncOnce ==
  /\ [][(shouldUpdateUrl /\ ~shouldUpdateUrl' /\ call' = call)
          => \A f \in DOMAIN defaultSettings : url'[1][f] = settings'[f]]_vars
  /\ [][(url' # url /\ url' # <<>>)
          => (shouldUpdateUrl /\ ~shouldUpdateUrl')]_vars
  /\ [][(shouldUpdateUrl' /\ ~shouldUpdateUrl)
          => call'.fn = "updateSettings"]_vars
  /\ shouldUpdateUrl
       ~> (~shouldUpdateUrl /\ (url = <<settings>> \/ call.fn = "none"))

\* updateSettings({expectedReturn: -7.5, risk: 18}) was the last operation,
\* the effect has run, and the query holds the settings.
C22_Witness ==
  /\ call.fn = "updateSettings"
  /\ DOMAIN call.args[1] = {"expectedReturn", "risk"}
  /\ ~shouldUpdateUrl
  /\ url = <<settings>>
  /\ settings.expectedReturn = -75
  /\ stored = <<JSONStringify(settings)>>

(***************************************************************************)
(* C23: in every interleaving of updateSettings, resetSettings, the        *)
(* URL-sync effect and the deferred clear, each quiescent state            *)
(* (shouldUpdateUrl false and no deferred clear pending) has a query that  *)
(* matches the last store operation: the five current settings if it was   *)
(* updateSettings, an empty query if it was resetSettings.                 *)
(***************************************************************************)
C23_QuiescentUrlMatchesLastOperation ==
  Quiescent =>
    /\ call.fn = "updateSettings" => url = <<settings>>
    /\ call.fn = "resetSettings" => url = <<>>

\* resetSettings, then updateSettings and its effect before the timer of
\* the reset fired: the timer erased the query written for the update.
C23_Witness ==
  /\ Quiescent
  /\ call.fn = "updateSettings"
  /\ stored = <<JSONStringify(settings)>>
  /\ settings # defaultSettings
  /\ url = <<>>

(***************************************************************************)
(* C19: settings persistence round-trips: after any sequence of            *)
(* updateSettings calls, unmounting and remounting the provider (the load  *)
(* from localStorage at mount) gives a settings record equal, in all five  *)
(* fields, to the settings held just before the unmount.                   *)
(***************************************************************************)
C19_PersistenceRoundTrip ==
  [][(call'.fn = "none")
       => \A f \in DOMAIN defaultSettings : settings'[f] = settings[f]]_vars

\* The provider was mounted again after updateSettings had stored a
\* threshold of 90.5 % and a return of -7.5 %, and holds both.
C19_Witness ==
  /\ call.fn = "none"
  /\ stored # <<>>
  /\ stored[1].probabilityThreshold.frac = <<5>>
  /\ stored[1].expectedReturn.neg
  /\ settings.probabilityThreshold = 905 * (PCT \div 10)
  /\ settings.expectedReturn = -75


(***************************************************************************)
(* The Settings page alone (src/unnamed/part_001 lines 1186-1493), opened  *)
(* with the default settings: its fields, the asset-class table, the Save  *)
(* button, and the Reset button with its confirmation modal.               *)
(***************************************************************************)
InitStored(path, entry) ==
  /\ call = Pending(<<>>)
  /\ ret = <<>>
  /\ stats = NoStats
  /\ settings = defaultSettings
  /\ stored = entry
  /\ formData = defaultSettings
  /\ tempProbabilityThreshold = <<>>
  /\ tempInvestmentRatio = <<>>
  /\ years = defaultYears
  /\ page = path
  /\ worstCaseAssets = <<>>
  /\ worstCaseLoss = <<>>
  /\ url = <<>>
  /\ shouldUpdateUrl = FALSE
  /\ clearPending = 0
  /\ isResetModalOpen = FALSE
  /\ pdfPc = [i \in 1..MaxClicks |-> "idle"]
  /\ attached = {}

InitPage(path) == InitStored(path, <<>>)

InitSettingsPage == InitPage("/settings/")

NextSettingsPage ==
  \/ handleChange
  \/ handleApplyAssetClass
  \/ handleSubmit
  \/ handleResetClick
  \/ handleResetCancel
  \/ handleResetConfirm

SpecSettingsPage == InitSettingsPage /\ [][NextSettingsPage]_vars


(***************************************************************************)
(* C24: a submit of the Settings form that fails validation (totalAssets   *)
(* <= 0, investmentRatio outside [0,100], probabilityThreshold outside     *)
(* [0,100], or risk < 0) leaves the settings, localStorage and the URL     *)
(* unchanged; so, starting from defaultSettings, every settings state      *)
(* reached through submits and resets has totalAssets > 0, investmentRatio *)
(* and probabilityThreshold in [0,100] and risk >= 0.                      *)
(***************************************************************************)
C24_InvalidSubmitLeavesSettings ==
  [][/\ (handleSubmit /\ (\/ formData.totalAssets <= 0
                          \/ formData.investmentRatio < 0
                          \/ formData.investmentRatio > 100
                          \/ formData.probabilityThreshold < 0
                          \/ formData.probabilityThreshold > 100 * PCT
                          \/ formData.risk < 0))
          => UNCHANGED <<settings, stored, url>>
     /\ settings'.totalAssets > 0
     /\ settings'.investmentRatio >= 0 /\ settings'.investmentRatio <= 100
     /\ settings'.probabilityThreshold >= 0
     /\ settings'.probabilityThreshold <= 100 * PCT
     /\ settings'.risk >= 0]_vars

\* After a save of an asset class, a form with a risk of -1 % (and nothing
\* else out of range) was submitted and refused: the saved values stay.
C24_Witness ==
  /\ ret = <<Toast("error")>>
  /\ formData.risk = -10
  /\ formData.totalAssets > 0
  /\ formData.investmentRatio = 50
  /\ formData.probabilityThreshold = 905 * (PCT \div 10)
  /\ stored = <<JSONStringify(settings)>>
  /\ url = <<settings>>
  /\ settings.risk = assetClasses[5].risk
  /\ settings.expectedReturn = assetClasses[5].expectedReturn


(***************************************************************************)
(* C26: on the Settings page the unsaved-changes warning is shown exactly  *)
(* when the form differs from the settings in at least one of the five     *)
(* fields; after any sequence of edits and asset-class applications it is  *)
(* false immediately after a successful save and immediately after a       *)
(* confirmed reset; and an asset-class application changes only the        *)
(* expectedReturn and risk of the form, never the settings.                *)
(***************************************************************************)
C26_UnsavedChangesWarning ==
  /\ [](hasUnsavedChanges <=> formData # settings)
  /\ [][((handleSubmit /\ ret' = <<Toast("success")>>) \/ handleResetConfirm)
          => ~hasUnsavedChanges']_vars
  /\ [][handleApplyAssetClass
          => /\ UNCHANGED <<settings, stored, url>>
             /\ \A f \in DOMAIN formData \ {"expectedReturn", "risk"} :
                  formData'[f] = formData[f]]_vars

\* The third asset class was applied to a form whose threshold had been
\* edited: the warning is shown, and the settings are the defaults.
C26_Witness ==
  /\ ret = <<Toast("success")>>
  /\ formData.expectedReturn = assetClasses[3].expectedReturn
  /\ formData.risk = assetClasses[3].risk
  /\ formData.probabilityThreshold = 0
  /\ settings = defaultSettings
  /\ stored = <<>>
  /\ hasUnsavedChanges

(***************************************************************************)
(* C27: resetSettings is invoked from the Settings page only through the   *)
(* sequence Reset button, confirmation modal open, Confirm: clicking Reset *)
(* alone, or Reset followed by Cancel, leaves the settings and the form    *)
(* data unchanged, and the modal is closed after either Confirm or Cancel. *)
(***************************************************************************)
C27_ResetOnlyThroughModal ==
  /\ [][((ret' = <<Toast("info")>> /\ ret' # ret)
           \/ (stored # <<>> /\ stored' = <<>>))
          => (isResetModalOpen /\ ~isResetModalOpen')]_vars
  /\ [][(handleResetClick \/ handleResetCancel)
          => UNCHANGED <<settings, stored, url, formData>>]_vars
  /\ [][(handleResetConfirm \/ handleResetCancel) => ~isResetModalOpen']_vars
  /\ [][(isResetModalOpen' /\ ~isResetModalOpen) => handleResetClick]_vars

\* Settings had been saved and the form edited again; Reset was clicked and
\* confirmed: the modal is closed, and settings and form are the defaults.
C27_Witness ==
  /\ ret = <<Toast("info")>>
  /\ ~isResetModalOpen
  /\ settings = defaultSettings
  /\ formData = defaultSettings
  /\ stored = <<>>
  /\ url = <<>>


(***************************************************************************)
(* The restore from the URL alone (src/unnamed/part_000 lines 142-190),    *)
(* from the text of the query: searchParams.get gives null (<<>>) or the   *)
(* text of the parameter (<<chars>>, a sequence of characters), and        *)
(* parseFloat reads an optional sign, digits and decimals from its start   *)
(* and ignores what follows; without a digit it gives NaN.                 *)
(***************************************************************************)
Digits == <<"0", "1", "2", "3", "4", "5", "6", "7", "8", "9">>
IsDigit(c) == \E d \in DOMAIN Digits : Digits[d] = c
DigitValue(c) == (CHOOSE d \in DOMAIN Digits : Digits[d] = c) - 1

RECURSIVE DigitPrefix(_)
DigitPrefix(chars) ==
  IF chars # <<>> /\ IsDigit(chars[1])
  THEN <<DigitValue(chars[1])>> \o DigitPrefix(Tail(chars))
  ELSE <<>>

RECURSIVE WholeValue(_)
WholeValue(ds) ==
  IF ds = <<>> THEN 0 ELSE 10 * WholeValue(SubSeq(ds, 1, Len(ds) - 1)) + ds[Len(ds)]

Unsigned(chars) == IF chars # <<>> /\ chars[1] = "-" THEN Tail(chars) ELSE chars
AfterWhole(chars) ==
  SubSeq(Unsigned(chars), Len(DigitPrefix(Unsigned(chars))) + 1,
         Len(Unsigned(chars)))
Decimal(chars) ==
  IF AfterWhole(chars) # <<>> /\ AfterWhole(chars)[1] = "."
  THEN DigitPrefix(Tail(AfterWhole(chars)))
  ELSE <<>>

\* parseFloat(chars), in units of 10^-n.
parseFloat(chars, n) ==
  IF DigitPrefix(Unsigned(chars)) = <<>> /\ Decimal(chars) = <<>>
  THEN NaN
  ELSE Num(StringToNumber([neg |-> chars[1] = "-",
                           int |-> WholeValue(DigitPrefix(Unsigned(chars))),
                           frac |-> Decimal(chars)], n))

\* searchParams.get(name) followed by parseFloat, when the parameter is
\* there.
UrlParam(text, n) == IF text = <<>> THEN <<>> ELSE <<parseFloat(text[1], n)>>

ParsedQuery(query) ==
  [f \in DOMAIN query |-> UrlParam(query[f], Decimals[f])]

QueryInputs ==
  [totalAssets : {<<>>, <<<<"5", "0", "0">>>>, <<<<"0">>>>, <<<<"x">>>>},
   investmentRatio : {<<>>, <<<<"3", "0", "%">>>>, <<<<"1", "0", "1">>>>},
   probabilityThreshold :
     {<<>>, <<<<"9", "9", ".", "5">>>>, <<<<"-", "1">>>>, <<<<>>>>},
   expectedReturn : {<<>>, <<<<"-", "2", ".", "5">>>>, <<<<"-">>>>},
   risk : {<<>>, <<<<".", "5">>>>, <<<<"-", ".", "5">>>>}]

InitRestore ==
  /\ Init
  /\ call = Pending(<<>>)

\* src/unnamed/part_000 lines 143-190: the effect, run for the query a page
\* is opened with; call keeps the query and the settings before it.
Restore_searchParams ==
  /\ call.fn = "none"
  /\ \E query \in QueryInputs :
       /\ call' = [fn |-> "useEffect[searchParams]", args |-> <<query, settings>>]
       /\ settings' =
            IF UrlApplies(ParsedQuery(query))
            THEN urlSettings(settings, ParsedQuery(query))
            ELSE settings
  /\ UNCHANGED <<ret, stats, stored, formData, tempProbabilityThreshold,
                 years, page, tempInvestmentRatio, worstCaseAssets,
                 worstCaseLoss, url, providerVars, isResetModalOpen, pdfVars>>

NextRestore == Restore_searchParams
SpecRestore == InitRestore /\ [][NextRestore]_vars


(***************************************************************************)
(* C25: the restore from the URL validates each field independently: a     *)
(* parameter is applied to its field only if it parses to a number and     *)
(* satisfies the constraint of that field (totalAssets > 0;                *)
(* investmentRatio and probabilityThreshold in [0,100]; risk >= 0;         *)
(* expectedReturn any number); a missing or invalid parameter leaves its   *)
(* field unchanged and does not keep the other valid parameters from       *)
(* being applied.                                                          *)
(***************************************************************************)
C25_UrlRestorePerField ==
  call.fn = "useEffect[searchParams]" =>
    LET query == call.args[1]
        prev == call.args[2]
        value(f) == parseFloat(query[f][1], Decimals[f])
        given(f) == query[f] # <<>> /\ IsNum(value(f))
    IN /\ settings.totalAssets =
            IF given("totalAssets") /\ value("totalAssets").v > 0
            THEN value("totalAssets").v ELSE prev.totalAssets
       /\ settings.investmentRatio =
            IF /\ given("investmentRatio")
               /\ value("investmentRatio").v >= 0
               /\ value("investmentRatio").v <= 100
            THEN value("investmentRatio").v ELSE prev.investmentRatio
       /\ settings.probabilityThreshold =
            IF /\ given("probabilityThreshold")
               /\ value("probabilityThreshold").v >= 0
               /\ value("probabilityThreshold").v <= 100 * PCT
            THEN value("probabilityThreshold").v ELSE prev.probabilityThreshold
       /\ settings.expectedReturn =
            IF given("expectedReturn")
            THEN value("expectedReturn").v ELSE prev.expectedReturn
       /\ settings.risk =
            IF given("risk") /\ value("risk").v >= 0
            THEN value("risk").v ELSE prev.risk

\* ?totalAssets=500&investmentRatio=101&probabilityThreshold=&risk=.5 : the
\* total and the risk are applied, the ratio (out of range), the threshold
\* (no number) and the return (missing) are as before.
C25_Witness ==
  /\ call.fn = "useEffect[searchParams]"
  /\ call.args[1].totalAssets = <<<<"5", "0", "0">>>>
  /\ call.args[1].investmentRatio = <<<<"1", "0", "1">>>>
  /\ call.args[1].probabilityThreshold = <<<<>>>>
  /\ call.args[1].expectedReturn = <<>>
  /\ call.args[1].risk = <<<<".", "5">>>>
  /\ settings = [defaultSettings EXCEPT !.totalAssets = 500, !.risk = 5]


(***************************************************************************)
(* generatePDF of the Distribution page (src/unnamed/part_001 lines        *)
(* 604-868), one invocation per click of the download button, several of   *)
(* them possibly under way at once.  pdfPc[i] is "idle", the canvas the    *)
(* invocation is awaiting from html2canvas, or its outcome: "saved" (line  *)
(* 862) or "failed" (the catch, lines 864-867).  Each action is the code   *)
(* between two awaits.                                                     *)
(***************************************************************************)
TemporaryElements == {"pdfContent", "chartGuideDiv", "conditionsDiv"}
Awaited ==
  {"headerCanvas", "chartCanvas", "chartGuideCanvas", "conditionsCanvas"}
Finished == {"saved", "failed"}

InitPDF == InitPage("/distribution/")

\* Lines 605-641: the button is clicked; pdfContent is built and appended,
\* and html2canvas(pdfContent) is awaited.
generatePDF ==
  /\ page = "/distribution/"
  /\ \E i \in DOMAIN pdfPc :
       /\ pdfPc[i] \in {"idle"} \cup Finished
       /\ pdfPc' = [pdfPc EXCEPT ![i] = "headerCanvas"]
       /\ attached' = attached \cup {<<i, "pdfContent">>}
  /\ ret' = <<Toast("info")>>
  /\ UNCHANGED <<call, stats, settings, stored, formData,
                 tempProbabilityThreshold, years, page, tempInvestmentRatio,
                 worstCaseAssets, worstCaseLoss, url, providerVars,
                 isResetModalOpen>>

\* Lines 644-862: an awaited html2canvas is fulfilled and the invocation
\* runs on to its next await, or to the end; chart is chartRef.current !=
\* null (line 651), saved is whether the steps of jsPDF (lines 805-861)
\* went through.
Resume_generatePDF ==
  /\ \E i \in DOMAIN pdfPc, chart \in BOOLEAN, saved \in BOOLEAN :
       \/ /\ pdfPc[i] = "headerCanvas"
          /\ chart
          /\ pdfPc' = [pdfPc EXCEPT ![i] = "chartCanvas"]
          /\ UNCHANGED <<attached, ret>>
       \/ /\ \/ pdfPc[i] = "headerCanvas" /\ ~chart
             \/ pdfPc[i] = "chartCanvas"
          /\ pdfPc' = [pdfPc EXCEPT ![i] = "chartGuideCanvas"]
          /\ attached' = attached \cup {<<i, "chartGuideDiv">>}
          /\ UNCHANGED ret
       \/ /\ pdfPc[i] = "chartGuideCanvas"
          /\ pdfPc' = [pdfPc EXCEPT ![i] = "conditionsCanvas"]
          /\ attached' = attached \cup {<<i, "conditionsDiv">>}
          /\ UNCHANGED ret
       \/ /\ pdfPc[i] = "conditionsCanvas"
          /\ attached' = attached \ {<<i, e>> : e \in TemporaryElements}
          /\ pdfPc' = [pdfPc EXCEPT ![i] = IF saved THEN "saved" ELSE "failed"]
          /\ ret' = <<Toast(IF saved THEN "success" ELSE "error")>>
  /\ UNCHANGED <<call, stats, settings, stored, formData,
                 tempProbabilityThreshold, years, page, tempInvestmentRatio,
                 worstCaseAssets, worstCaseLoss, url, providerVars,
                 isResetModalOpen>>

\* Lines 864-867: an awaited html2canvas is rejected and the catch runs.
Catch_generatePDF ==
  /\ \E i \in DOMAIN pdfPc :
       /\ pdfPc[i] \in Awaited
       /\ pdfPc' = [pdfPc EXCEPT ![i] = "failed"]
  /\ ret' = <<Toast("error")>>
  /\ UNCHANGED <<call, stats, settings, stored, formData,
                 tempProbabilityThreshold, years, page, tempInvestmentRatio,
                 worstCaseAssets, worstCaseLoss, url, providerVars,
                 isResetModalOpen, attached>>

NextPDF == generatePDF \/ Resume_generatePDF \/ Catch_generatePDF
SpecPDF == InitPDF /\ [][NextPDF]_vars

(***************************************************************************)
(* C28: whenever generatePDF finishes, whether it succeeds or a            *)
(* rasterisation (html2canvas) or a PDF step fails, none of the three      *)
(* temporary elements it appended to document.body (pdfContent,            *)
(* chartGuideDiv, conditionsDiv) remains attached.                         *)
(***************************************************************************)
C28_NoTemporaryElementLeft ==
  \A i \in DOMAIN pdfPc :
    pdfPc[i] \in Finished => \A e \in TemporaryElements : <<i, e>> \notin attached

\* The only invocation failed while it awaited html2canvas(chartGuideDiv):
\* pdfContent and chartGuideDiv are still in document.body.
C28_Witness ==
  /\ pdfPc[1] = "failed"
  /\ \A i \in DOMAIN pdfPc \ {1} : pdfPc[i] = "idle"
  /\ attached = {<<1, "pdfContent">>, <<1, "chartGuideDiv">>}
  /\ ret = <<Toast("error")>>

\* What the code does give: an invocation that reached the removal of line
\* 798 leaves nothing behind, whether the PDF was saved or not.
C28_RemovedOnceRasterised ==
  [][\A i \in DOMAIN pdfPc :
       (pdfPc[i] = "conditionsCanvas" /\ pdfPc'[i] = "saved")
         => \A e \in TemporaryElements : <<i, e>> \notin attached']_vars


(***************************************************************************)
(* C29: updateSettings(partial) changes exactly the fields present in      *)
(* partial: every field absent from it keeps the value it had, two         *)
(* successive calls made before a re-render both take effect (the second   *)
(* on top of the first), and what is written to localStorage is the        *)
(* merged record.                                                          *)
(***************************************************************************)
C29_UpdateChangesGivenFields ==
  [][updateSettings
       => /\ \A f \in DOMAIN defaultSettings :
               settings'[f] = IF f \in DOMAIN call'.args[1]
                              THEN call'.args[1][f]
                              ELSE settings[f]
          /\ stored' = <<JSONStringify(settings')>>]_vars

\* updateSettings({probabilityThreshold: 90.5}) and then
\* updateSettings({expectedReturn: -7.5, risk: 18}), the effect not having
\* run: the settings hold both, the other two fields are the defaults, and
\* localStorage holds the merged record.
C29_Witness ==
  /\ call.fn = "updateSettings"
  /\ DOMAIN call.args[1] = {"expectedReturn", "risk"}
  /\ shouldUpdateUrl
  /\ url = <<>>
  /\ page = "home"
  /\ settings = [defaultSettings EXCEPT
                   !.probabilityThreshold = 905 * (PCT \div 10),
                   !.expectedReturn = -75, !.risk = 180]
  /\ stored = <<JSONStringify(settings)>>

(***************************************************************************)
(* The load at mount alone (src/unnamed/part_000 lines 37-50), for what    *)
(* the entry of localStorage may hold when the provider is constructed:    *)
(* nothing, a text that is not JSON, the text of a settings record, or the *)
(* text of an object with fewer fields.                                    *)
(***************************************************************************)
StoredRecords ==
  [totalAssets : {1000000, 10000000}, investmentRatio : {0, 50},
   probabilityThreshold : {905 * (PCT \div 10), 98 * PCT},
   expectedReturn : {-75, 80}, risk : {0, 150}]

StoredInputs ==
  {<<>>, <<NotJSON>>, <<JSONStringify([totalAssets |-> 500])>>,
   <<JSONStringify([expectedReturn |-> 50, risk |-> 200])>>}
    \cup {<<JSONStringify(s)>> : s \in StoredRecords}

InitMount == \E entry \in StoredInputs : InitStored("home", entry)
NextMount == Mount_SettingsProvider
SpecMount == InitMount /\ [][NextMount]_vars

(***************************************************************************)
(* C30: on mount, if the entry of localStorage is absent or is not         *)
(* parseable JSON, the settings stay equal to defaultSettings and no error *)
(* escapes the provider; if it parses, the stored record replaces the      *)
(* settings as a whole, so that after the load the settings record always  *)
(* has all five numeric fields.                                            *)
(***************************************************************************)
C30_MountLoadsCompleteSettings ==
  page \in pages =>
    /\ ret # <<Thrown>>
    /\ (stored = <<>> \/ ~Parseable(stored[1])) => settings = defaultSettings
    /\ (stored # <<>> /\ Parseable(stored[1]))
         => settings = JSONParse(stored[1])
    /\ DOMAIN settings = DOMAIN defaultSettings

\* The entry held {"expectedReturn":5,"risk":20}: after the mount the
\* settings are that object, with two fields.
C30_Witness ==
  /\ page \in pages
  /\ stored = <<JSONStringify([expectedReturn |-> 50, risk |-> 200])>>
  /\ DOMAIN settings = {"expectedReturn", "risk"}
  /\ settings.risk = 200

\* What the code does give: the first three parts of C30.
C30_MountLoadsWhatParses ==
  page \in pages =>
    /\ ret # <<Thrown>>
    /\ (stored = <<>> \/ ~Parseable(stored[1])) => settings = defaultSettings
    /\ (stored # <<>> /\ Parseable(stored[1]))
         => settings = JSONParse(stored[1])

=============================================================================
